---- MODULE Spec2Model ----
(***************************************************************************)
(* A model of the espells spellchecking engine: lookup (check, forms,     *)
(* affix decomposition, form validation, compounding) and the suggester.  *)
(*                                                                         *)
(* Words are sequences of one-character strings.  A dictionary is a        *)
(* sequence of Word records in insertion order; an affix table is a        *)
(* sequence of affix records.  An optional flag that is not configured is  *)
(* NoFlag; an optional object (prefix, suffix, inDictionary) is a sequence *)
(* of length 0 or 1.                                                       *)
(***************************************************************************)
EXTENDS Integers, Sequences, FiniteSets, TLC

\* ------------------------------------------------------------------ text

\* The letters that have two cases, lower and upper at the same position.
Letters ==
  [lower |-> <<"a", "b", "c", "d", "e", "f", "g", "h", "i", "j", "k", "l", "m",
               "n", "o", "p", "q", "r", "s", "t", "u", "v", "w", "x", "y", "z">>,
   upper |-> <<"A", "B", "C", "D", "E", "F", "G", "H", "I", "J", "K", "L", "M",
               "N", "O", "P", "Q", "R", "S", "T", "U", "V", "W", "X", "Y", "Z">>]

\* String.prototype.toLowerCase / toUpperCase, one character at a time.
LowerChar(c) ==
  IF \E i \in 1..Len(Letters.upper) : Letters.upper[i] = c
  THEN Letters.lower[CHOOSE i \in 1..Len(Letters.upper) : Letters.upper[i] = c]
  ELSE c

UpperChar(c) ==
  IF \E i \in 1..Len(Letters.lower) : Letters.lower[i] = c
  THEN Letters.upper[CHOOSE i \in 1..Len(Letters.lower) : Letters.lower[i] = c]
  ELSE c

lowercase(s) == [i \in 1..Len(s) |-> LowerChar(s[i])]

uppercase(s) == [i \in 1..Len(s) |-> UpperChar(s[i])]

\* s.slice(from, to) with 0-based, half-open, non-negative indices.
Slice(s, from, to) == SubSeq(s, from + 1, IF to > Len(s) THEN Len(s) ELSE to)

\* s.slice(from)
SliceFrom(s, from) == SubSeq(s, from + 1, Len(s))

StartsWith(s, p) == Len(p) <= Len(s) /\ SubSeq(s, 1, Len(p)) = p

EndsWith(s, p) == Len(p) <= Len(s) /\ SubSeq(s, Len(s) - Len(p) + 1, Len(s)) = p

\* s.includes(p)
Includes(s, p) == \E i \in 0..(Len(s) - Len(p)) : SubSeq(s, i + 1, i + Len(p)) = p

\* s.indexOf(c) for a single character, -1 when absent.
IndexOfChar(s, c) == IF \E i \in 1..Len(s) : s[i] = c
                     THEN (CHOOSE i \in 1..Len(s) : s[i] = c /\ \A j \in 1..(i - 1) : s[j] # c) - 1
                     ELSE -1

\* array.flat() for a sequence of sequences: ss[1] \o ... \o ss[Len(ss)],
\* halving the range.
Flatten(ss) ==
  LET RECURSIVE range(_, _)
      range(lo, hi) ==
        IF hi < lo THEN <<>>
        ELSE IF lo = hi THEN ss[lo]
        ELSE range(lo, (lo + hi) \div 2) \o range((lo + hi) \div 2 + 1, hi)
  IN range(1, Len(ss))

RECURSIVE JoinWith(_, _)
JoinWith(ss, sep) == IF ss = <<>> THEN <<>>
                     ELSE IF Len(ss) = 1 THEN ss[1]
                     ELSE ss[1] \o sep \o JoinWith(Tail(ss), sep)

\* s.split(c) for a single-character separator.
RECURSIVE SplitOn(_, _)
SplitOn(s, c) == LET i == IndexOfChar(s, c) IN
                 IF i = -1 THEN <<s>>
                 ELSE <<Slice(s, 0, i)>> \o SplitOn(SliceFrom(s, i + 1), c)

\* array.filter(pred) for a sequence.
Filter(seq, Test(_)) == SelectSeq(seq, Test)

Range(seq) == {seq[i] : i \in 1..Len(seq)}

\* ------------------------------------------------------------ constants

NoFlag == "undefined"

\* The capitalization types.
CapType == [NO |-> "NO", INIT |-> "INIT", ALL |-> "ALL", HUH |-> "HUH", HUHINIT |-> "HUHINIT"]

\* The positions of a part in a compound; PosNone is a word outside compounds.
CompoundPos == [BEGIN |-> "BEGIN", MIDDLE |-> "MIDDLE", END |-> "END"]

PosNone == "undefined"


\* --------------------------------------------------------------- casing

\* Casing.guess: the capitalization type of a word.
guess(word) ==
  IF lowercase(word) = word THEN CapType.NO
  ELSE IF lowercase(SliceFrom(word, 1)) = SliceFrom(word, 1) THEN CapType.INIT
  ELSE IF uppercase(word) = word THEN CapType.ALL
  ELSE IF LowerChar(word[1]) # word[1] THEN CapType.HUHINIT
  ELSE CapType.HUH

\* Casing.lower / capitalize / lowerfirst; the generators yield one string.
CasingLower(word) == <<lowercase(word)>>

capitalize(word) == IF word = <<>> THEN <<>>
                    ELSE <<<<UpperChar(word[1])>> \o lowercase(SliceFrom(word, 1))>>

lowerfirst(word) == IF word = <<>> THEN <<>>
                    ELSE <<<<LowerChar(word[1])>> \o SliceFrom(word, 1)>>

\* Casing.variants: the lookup keys tried by Lookup.forms, without the leading captype.
variants(word) ==
  LET captype == guess(word) IN
  CASE captype = CapType.NO -> <<word>>
    [] captype = CapType.INIT -> <<word>> \o CasingLower(word)
    [] captype = CapType.HUHINIT -> <<word>> \o lowerfirst(word)
    [] captype = CapType.HUH -> <<word>>
    [] captype = CapType.ALL -> <<word>> \o CasingLower(word) \o capitalize(word)

\* Casing.corrections: the variants the suggester edits, without the leading captype.
corrections(word) ==
  LET captype == guess(word) IN
  CASE captype = CapType.NO -> <<word>>
    [] captype = CapType.INIT -> <<word>> \o CasingLower(word)
    [] captype = CapType.HUHINIT -> <<word>> \o lowerfirst(word) \o CasingLower(word) \o capitalize(word)
    [] captype = CapType.HUH -> <<word>> \o CasingLower(word)
    [] captype = CapType.ALL -> <<word>> \o CasingLower(word) \o capitalize(word)

\* Casing.coerce: reshape a suggestion to the capitalization type of the input.
coerce(word, captype) ==
  IF word = <<>> THEN word
  ELSE IF captype \in {CapType.INIT, CapType.HUHINIT} THEN <<UpperChar(word[1])>> \o SliceFrom(word, 1)
  ELSE IF captype = CapType.ALL THEN uppercase(word)
  ELSE word

\* ----------------------------------------------------------- dictionary

\* A Word of the dictionary: stem and flags (no flags: the empty set).
MkWord(stem, flags) == [stem |-> stem, flags |-> flags]

\* Word.capType, set by the constructor.
WordCapType(w) == guess(w.stem)

\* Dic.homonyms(stem, ignorecase), in dictionary order.
homonyms(dic, stem, ignorecase) ==
  IF ignorecase
  THEN Filter(dic, LAMBDA w : lowercase(w.stem) = lowercase(stem))
  ELSE Filter(dic, LAMBDA w : w.stem = stem)

\* Dic.hasFlag(stem, flag, all)
hasFlag(dic, stem, flag, all) ==
  LET hs == homonyms(dic, stem, FALSE) IN
  IF flag = NoFlag \/ hs = <<>> THEN FALSE
  ELSE IF all THEN \A i \in 1..Len(hs) : flag \in hs[i].flags
  ELSE \E i \in 1..Len(hs) : flag \in hs[i].flags

\* includes(flag, flags) of util: the flag is configured and in the set.
includes(flag, flags) == flag # NoFlag /\ flag \in flags

\* -------------------------------------------------------------- affixes

\* One element of an affix condition: a character class, possibly negated
\* ("." is the negation of the empty class).
AnyChar == [neg |-> TRUE, chars |-> {}]

CondOk(ce, c) == IF ce.neg THEN c \notin ce.chars ELSE c \in ce.chars

\* A Prefix or Suffix entry.
MkAffix(flag, crossproduct, strip, add, cond, flags) ==
  [flag |-> flag, crossproduct |-> crossproduct, strip |-> strip, add |-> add,
   cond |-> cond, flags |-> flags]

\* Suffix.apply(surface): take the add off the end and restore the strip.
SuffixApply(sfx, word) == SubSeq(word, 1, Len(word) - Len(sfx.add)) \o sfx.strip

\* Prefix.apply(surface): take the add off the start and restore the strip.
PrefixApply(pfx, word) == pfx.strip \o SliceFrom(word, Len(pfx.add))

\* Suffix.relevant(stem): the condition matches the end of the stem.
SuffixRelevant(sfx, stem) ==
  /\ Len(sfx.cond) <= Len(stem)
  /\ \A i \in 1..Len(sfx.cond) : CondOk(sfx.cond[i], stem[Len(stem) - Len(sfx.cond) + i])

\* Prefix.relevant(stem): the condition matches the start of the stem.
PrefixRelevant(pfx, stem) ==
  /\ Len(pfx.cond) <= Len(stem)
  /\ \A i \in 1..Len(pfx.cond) : CondOk(pfx.cond[i], stem[i])

\* Suffix.on(surface)
SuffixOn(sfx, word) == EndsWith(word, sfx.add) /\ SuffixRelevant(sfx, SuffixApply(sfx, word))

\* Prefix.on(surface)
PrefixOn(pfx, word) == StartsWith(word, pfx.add) /\ PrefixRelevant(pfx, PrefixApply(pfx, word))

\* Affix.compatible(required, forbidden)
compatible(affix, required, forbidden) ==
  /\ (required = {} \/ affix.flags \cap required # {})
  /\ affix.flags \cap forbidden = {}

\* Trie.segments over the suffix index: for each suffix of the word, shortest
\* first, the entries whose add is that suffix.
SuffixSegments(aff, word) ==
  Flatten([k \in 1..(Len(word) + 1) |->
             Filter(aff.SFX, LAMBDA a : Len(a.add) = k - 1 /\ EndsWith(word, a.add))])

\* Trie.segments over the prefix index.
PrefixSegments(aff, word) ==
  Flatten([k \in 1..(Len(word) + 1) |->
             Filter(aff.PFX, LAMBDA a : Len(a.add) = k - 1 /\ StartsWith(word, a.add))])

\* ------------------------------------------------------------- LKFlags

MkLKFlags(prefix, suffix, forbidden) ==
  [prefix |-> prefix, suffix |-> suffix, forbidden |-> forbidden]

NoLKFlags == MkLKFlags({}, {}, {})

\* -------------------------------------------------------------- LKWord

MkLKWord(word, type, pos) == [word |-> word, type |-> type, pos |-> pos]

\* LKWord.to(word): the same metadata on a new string, a new instance.
LKTo(lk, word) == MkLKWord(word, lk.type, lk.pos)

\* LKWord.shift(pos)
LKShift(lk, pos) == MkLKWord(lk.word, lk.type, pos)

\* LKWord.at(n): the character at n, from the end when n is negative; a
\* missing character is the empty sequence.
LKAt(lk, n) ==
  LET i == IF n < 0 THEN Len(lk.word) + n ELSE n IN
  IF i >= 0 /\ i < Len(lk.word) THEN <<lk.word[i + 1]>> ELSE <<>>

\* LKWord.at(n) of the other LKWord class, which subtracts a negative n
\* from the length: this.word[this.word.length - n].
LKAtMinus(lk, n) ==
  LET i == IF n < 0 THEN Len(lk.word) - n ELSE n IN
  IF i >= 0 /\ i < Len(lk.word) THEN <<lk.word[i + 1]>> ELSE <<>>

\* ----------------------------------------------------------- AffixForm

MkForm(text, stem, prefix, suffix, prefix2, suffix2, inDictionary) ==
  [text |-> text, stem |-> stem, prefix |-> prefix, suffix |-> suffix,
   prefix2 |-> prefix2, suffix2 |-> suffix2, inDictionary |-> inDictionary]

\* new AffixForm(word): the identity form.
IdentityForm(word) == MkForm(word, word, <<>>, <<>>, <<>>, <<>>, <<>>)

\* AffixForm.hasAffixes
hasAffixes(form) == form.suffix # <<>> \/ form.prefix # <<>>

\* AffixForm.flags: the word's flags and those of the outer prefix and suffix.
FormFlags(form) ==
  (IF form.inDictionary # <<>> THEN form.inDictionary[1].flags ELSE {})
    \cup (IF form.prefix # <<>> THEN form.prefix[1].flags ELSE {})
    \cup (IF form.suffix # <<>> THEN form.suffix[1].flags ELSE {})



\* ----------------------------------------------------------- decomposer

FlatMap(seq, F(_)) == Flatten([i \in 1..Len(seq) |-> F(seq[i])])

\* affixes(aff, SUFFIX, word, flags, crossproduct): the suffixes that may end the word.
SuffixesOf(aff, word, flags, crossproduct) ==
  Filter(SuffixSegments(aff, word),
         LAMBDA a : /\ (~crossproduct \/ a.crossproduct)
                    /\ SuffixOn(a, word)
                    /\ compatible(a, flags.suffix, flags.forbidden))

\* affixes(aff, PREFIX, word, flags): the prefixes that may start the word.
PrefixesOf(aff, word, flags) ==
  Filter(PrefixSegments(aff, word),
         LAMBDA a : PrefixOn(a, word) /\ compatible(a, flags.prefix, flags.forbidden))

\* desuffix: one suffix removed, and (when not nested) a second one removed
\* from the stem; the second pass keeps the suffix it finds in `suffix` and
\* records the first one as `suffix2`, with the text of the whole word.
RECURSIVE desuffix(_, _, _, _, _)
desuffix(aff, word, flags, crossproduct, nested) ==
  FlatMap(SuffixesOf(aff, word, flags, crossproduct),
          LAMBDA suffix :
            LET stem == SuffixApply(suffix, word)
                newFlags == [flags EXCEPT !.suffix = suffix.flags \cup flags.suffix]
            IN <<MkForm(word, stem, <<>>, <<suffix>>, <<>>, <<>>, <<>>)>>
               \o (IF nested THEN <<>>
                   ELSE FlatMap(desuffix(aff, stem, newFlags, crossproduct, TRUE),
                                LAMBDA form2 : <<[form2 EXCEPT !.text = word,
                                                               !.suffix2 = <<suffix>>]>>)))

\* deprefix: the same for prefixes; a second prefix only under COMPLEXPREFIXES.
RECURSIVE deprefix(_, _, _, _)
deprefix(aff, word, flags, nested) ==
  FlatMap(PrefixesOf(aff, word, flags),
          LAMBDA prefix :
            LET stem == PrefixApply(prefix, word)
                newFlags == [flags EXCEPT !.prefix = prefix.flags \cup flags.prefix]
            IN <<MkForm(word, stem, <<prefix>>, <<>>, <<>>, <<>>, <<>>)>>
               \o (IF nested \/ ~aff.COMPLEXPREFIXES THEN <<>>
                   ELSE FlatMap(deprefix(aff, stem, newFlags, TRUE),
                                LAMBDA form2 : <<[form2 EXCEPT !.text = word,
                                                               !.prefix2 = <<prefix>>]>>)))

\* The forms decompose yields after prefix form `form`: the form itself and,
\* for a cross-product prefix, its suffix decompositions.
CrossForms(aff, form, flags, suffixAllowed) ==
  <<form>>
    \o (IF suffixAllowed /\ form.prefix # <<>> /\ form.prefix[1].crossproduct
        THEN FlatMap(desuffix(aff, form.stem, flags, TRUE, FALSE),
                     LAMBDA form2 : <<[form2 EXCEPT !.text = form.text,
                                                    !.prefix = form.prefix]>>)
        ELSE <<>>)

\* decompose(word, flags): every hypothesis of prefix, stem and suffix, in
\* the order the generator yields them.
decompose(aff, lk, flags) ==
  LET suffixAllowed == lk.pos = PosNone \/ lk.pos = CompoundPos.END \/ flags.suffix # {}
      prefixAllowed == lk.pos = PosNone \/ lk.pos = CompoundPos.BEGIN \/ flags.prefix # {}
  IN <<IdentityForm(lk.word)>>
       \o (IF suffixAllowed THEN desuffix(aff, lk.word, flags, FALSE, FALSE) ELSE <<>>)
       \o (IF prefixAllowed
           THEN FlatMap(deprefix(aff, lk.word, flags, FALSE),
                        LAMBDA form : CrossForms(aff, form, flags, suffixAllowed))
           ELSE <<>>)

\* ------------------------------------------------------- form validator

\* Aff.isSharps(word); the character "sz" stands for the German sharp s.
isSharps(aff, word) == aff.CHECKSHARPS /\ "sz" \in Range(word)

\* AffixForm.has(flag): the form's flag set holds the flag.
FormHas(form, flag) == flag \in FormFlags(form)

\* The compound-position gate at the end of validForm.
PositionGate(aff, form, lk) ==
  LET allFlags == FormFlags(form) IN
  IF lk.pos = PosNone THEN ~includes(aff.ONLYINCOMPOUND, allFlags)
  ELSE IF includes(aff.COMPOUNDFLAG, allFlags) THEN TRUE
  ELSE CASE lk.pos = CompoundPos.BEGIN -> includes(aff.COMPOUNDBEGIN, allFlags)
         [] lk.pos = CompoundPos.MIDDLE -> includes(aff.COMPOUNDMIDDLE, allFlags)
         [] lk.pos = CompoundPos.END -> includes(aff.COMPOUNDEND, allFlags)

\* A validForm without the KEEPCASE test.
validFormAnyCase(aff, form, lk, allowNoSuggest) ==
  IF form.inDictionary = <<>> THEN FALSE
  ELSE
    LET root == form.inDictionary[1]
        rootFlags == root.flags
        allFlags == FormFlags(form)
    IN /\ ~(~allowNoSuggest /\ includes(aff.NOSUGGEST, rootFlags))
       /\ ~(aff.NEEDAFFIX # NoFlag
              /\ (FormHas(form, aff.NEEDAFFIX) \/ aff.NEEDAFFIX \in rootFlags))
       /\ ~(form.prefix # <<>> /\ form.prefix[1].flag \notin allFlags)
       /\ ~(form.suffix # <<>> /\ form.suffix[1].flag \notin allFlags)
       /\ ~(aff.CIRCUMFIX # NoFlag
              /\ ((form.suffix # <<>> /\ aff.CIRCUMFIX \in form.suffix[1].flags)
                    # (form.prefix # <<>> /\ aff.CIRCUMFIX \in form.prefix[1].flags)))
       /\ PositionGate(aff, form, lk)

\* validForm(form, word, allowNoSuggest)
validForm(aff, form, lk, allowNoSuggest) ==
  IF form.inDictionary = <<>> THEN FALSE
  ELSE
    LET root == form.inDictionary[1]
        rootFlags == root.flags
        allFlags == FormFlags(form)
    IN /\ ~(~allowNoSuggest /\ includes(aff.NOSUGGEST, rootFlags))
       /\ ~(/\ lk.type # WordCapType(root)
            /\ includes(aff.KEEPCASE, rootFlags)
            /\ ~isSharps(aff, root.stem))
       /\ ~(aff.NEEDAFFIX # NoFlag
              /\ (FormHas(form, aff.NEEDAFFIX) \/ aff.NEEDAFFIX \in rootFlags))
       /\ ~(form.prefix # <<>> /\ form.prefix[1].flag \notin allFlags)
       /\ ~(form.suffix # <<>> /\ form.suffix[1].flag \notin allFlags)
       /\ ~(aff.CIRCUMFIX # NoFlag
              /\ ((form.suffix # <<>> /\ aff.CIRCUMFIX \in form.suffix[1].flags)
                    # (form.prefix # <<>> /\ aff.CIRCUMFIX \in form.prefix[1].flags)))
       /\ PositionGate(aff, form, lk)

\* AffixForm.valid(word, allowNoSuggest): the validator as a method of the
\* form. Its switch over the compound position has no break, so each case
\* falls through to the next and the last assignment stands.
valid(aff, form, lk, allowNoSuggest) ==
  IF form.inDictionary = <<>> THEN FALSE
  ELSE
    LET root == form.inDictionary[1]
        rootFlags == root.flags
        allFlags == FormFlags(form)
        affixes == form.prefix2 \o form.prefix \o form.suffix \o form.suffix2
        atBegin == IF lk.pos = CompoundPos.BEGIN THEN includes(aff.COMPOUNDBEGIN, allFlags) ELSE FALSE
        atMiddle == IF lk.pos \in {CompoundPos.BEGIN, CompoundPos.MIDDLE}
                    THEN includes(aff.COMPOUNDMIDDLE, allFlags) ELSE atBegin
        passes == IF lk.pos \in {CompoundPos.BEGIN, CompoundPos.MIDDLE, CompoundPos.END}
                  THEN includes(aff.COMPOUNDEND, allFlags) ELSE atMiddle
    IN /\ ~(~allowNoSuggest /\ includes(aff.NOSUGGEST, rootFlags))
       /\ ~(/\ lk.type # WordCapType(root)
            /\ includes(aff.KEEPCASE, rootFlags)
            /\ ~isSharps(aff, root.stem))
       /\ ~(aff.NEEDAFFIX # NoFlag
              /\ IF hasAffixes(form)
                 THEN \A i \in 1..Len(affixes) : aff.NEEDAFFIX \in affixes[i].flags
                 ELSE aff.NEEDAFFIX \in rootFlags)
       /\ ~(form.prefix # <<>> /\ form.prefix[1].flag \notin allFlags)
       /\ ~(form.suffix # <<>> /\ form.suffix[1].flag \notin allFlags)
       /\ ~(aff.CIRCUMFIX # NoFlag
              /\ ((form.suffix # <<>> /\ aff.CIRCUMFIX \in form.suffix[1].flags)
                    # (form.prefix # <<>> /\ aff.CIRCUMFIX \in form.prefix[1].flags)))
       /\ IF lk.pos = PosNone THEN ~includes(aff.ONLYINCOMPOUND, allFlags)
          ELSE includes(aff.COMPOUNDFLAG, allFlags) \/ passes

\* A variant of candidates that yields only when every homonym validates.
candidatesAll(aff, lk, form, allowNoSuggest, hs) ==
  IF \A i \in 1..Len(hs) : validForm(aff, [form EXCEPT !.inDictionary = <<hs[i]>>], lk, allowNoSuggest)
  THEN [i \in 1..Len(hs) |-> [form EXCEPT !.inDictionary = <<hs[i]>>]]
  ELSE <<>>

\* candidates(word, form, allowNoSuggest, homonyms): the form bound to each
\* homonym that validates; `found` is whether it yielded anything.
candidates(aff, lk, form, allowNoSuggest, hs) ==
  Filter([i \in 1..Len(hs) |-> [form EXCEPT !.inDictionary = <<hs[i]>>]],
         LAMBDA candidate : validForm(aff, candidate, lk, allowNoSuggest))

\* hasForbidden(lkword, form, words)
hasForbidden(aff, lk, form, words) ==
  IF aff.FORBIDDENWORD = NoFlag THEN FALSE
  ELSE IF lk.pos = PosNone /\ ~hasAffixes(form) THEN FALSE
  ELSE \E i \in 1..Len(words) : aff.FORBIDDENWORD \in words[i].flags

\* What one iteration of the loop of affixForms yields for `form`.
AffixFormsOfForm(aff, dic, lk, form, allowNoSuggest) ==
  LET hs == homonyms(dic, form.stem, FALSE)
      first == IF hs # <<>> THEN candidates(aff, lk, form, allowNoSuggest, hs) ELSE <<>>
      forceucase == lk.pos = CompoundPos.BEGIN /\ aff.FORCEUCASE # NoFlag /\ lk.type = CapType.INIT
      second == IF forceucase
                THEN candidates(aff, lk, form, allowNoSuggest,
                                homonyms(dic, lowercase(form.stem), TRUE))
                ELSE <<>>
      found == IF forceucase THEN second # <<>> ELSE first # <<>>
      third == IF found \/ lk.pos # PosNone \/ lk.type # CapType.ALL THEN <<>>
               ELSE IF guess(lk.word) = CapType.NO
               THEN candidates(aff, lk, form, allowNoSuggest, homonyms(dic, form.stem, TRUE))
               ELSE <<>>
  IN first \o second \o third

\* The loop of affixForms from the i-th decomposition on: a forbidden
\* homonym ends the whole generator.
RECURSIVE AffixFormsFrom(_, _, _, _, _, _, _)
AffixFormsFrom(aff, dic, lk, forms, i, allowNoSuggest, withForbidden) ==
  IF i > Len(forms) THEN <<>>
  ELSE LET form == forms[i]
           hs == homonyms(dic, form.stem, FALSE)
       IN IF hs # <<>> /\ ~withForbidden /\ hasForbidden(aff, lk, form, hs) THEN <<>>
          ELSE AffixFormsOfForm(aff, dic, lk, form, allowNoSuggest)
                 \o AffixFormsFrom(aff, dic, lk, forms, i + 1, allowNoSuggest, withForbidden)

\* affixForms(word, allowNoSuggest, withForbidden, flags)
affixForms(aff, dic, lk, allowNoSuggest, withForbidden, flags) ==
  AffixFormsFrom(aff, dic, lk, decompose(aff, lk, flags), 1, allowNoSuggest, withForbidden)


\* ------------------------------------------------------------- patterns

\* A BREAK or REP search pattern: a literal, optionally anchored (^, $).
MkPattern(lit, atStart, atEnd) == [lit |-> lit, atStart |-> atStart, atEnd |-> atEnd]

MatchesAt(text, pat, i) ==
  /\ i + Len(pat.lit) <= Len(text)
  /\ SubSeq(text, i + 1, i + Len(pat.lit)) = pat.lit
  /\ (pat.atStart => i = 0)
  /\ (pat.atEnd => i + Len(pat.lit) = Len(text))

\* text.matchAll(pattern): the 0-based indices of the successive matches,
\* left to right, without overlap (an empty match advances by one).
RECURSIVE MatchAllFrom(_, _, _)
MatchAllFrom(text, pat, i) ==
  IF i > Len(text) THEN <<>>
  ELSE IF MatchesAt(text, pat, i)
  THEN <<i>> \o MatchAllFrom(text, pat, i + (IF Len(pat.lit) = 0 THEN 1 ELSE Len(pat.lit)))
  ELSE MatchAllFrom(text, pat, i + 1)

MatchAll(text, pat) == MatchAllFrom(text, pat, 0)

\* A REP table entry.
MkRep(pattern, replacement) == [pattern |-> pattern, replacement |-> replacement]

\* What a permutator yields: a string, or a list of words.
OneWord(text) == [multi |-> FALSE, text |-> text, words |-> <<>>]

ManyWords(words) == [multi |-> TRUE, text |-> JoinWith(words, <<" ">>), words |-> words]

\* replchars(word, REP): each REP rule applied at each of its matches; a
\* result with a space is also yielded as the pair of words.
replchars(word, reptable) ==
  IF Len(word) < 2 THEN <<>>
  ELSE FlatMap(reptable,
         LAMBDA rep :
           FlatMap(MatchAll(word, rep.pattern),
             LAMBDA i :
               LET suggestion == Slice(word, 0, i) \o rep.replacement
                                   \o SliceFrom(word, i + Len(rep.pattern.lit))
               IN <<OneWord(suggestion)>>
                    \o (IF " " \in Range(suggestion)
                        THEN <<ManyWords(SplitOn(suggestion, " "))>>
                        ELSE <<>>)))

\* ------------------------------------------------------- compound rules

\* Whether the parts from j on can be matched by the rule from element i on;
\* a part offers any one of its flags.  With `partial`, running out of parts
\* before the rule ends is a match.
RECURSIVE RuleMatchFrom(_, _, _, _, _)
RuleMatchFrom(rule, i, flagSets, j, partial) ==
  IF j > Len(flagSets)
  THEN partial \/ \A k \in i..Len(rule) : rule[k].q # "1"
  ELSE IF i > Len(rule) THEN FALSE
  ELSE LET e == rule[i]
           here == e.flag \in flagSets[j]
       IN \/ (e.q # "1" /\ RuleMatchFrom(rule, i + 1, flagSets, j, partial))
          \/ (here /\ e.q = "*" /\ RuleMatchFrom(rule, i, flagSets, j + 1, partial))
          \/ (here /\ e.q # "*" /\ RuleMatchFrom(rule, i + 1, flagSets, j + 1, partial))

\* CompoundRule.match(flagSets, partial)
RuleMatch(rule, flagSets, partial) == RuleMatchFrom(rule, 1, flagSets, 1, partial)

\* The flag sets of the parts handed to CompoundRule.match: the parts that
\* have flags, in order.
flagSets(parts) ==
  LET flagged == Filter(parts, LAMBDA w : w.flags # {})
  IN [i \in 1..Len(flagged) |-> flagged[i].flags]

\* ------------------------------------------------------------ compounds

isUppercased(c) == LowerChar(c) # c

isTriplet(s) == Len(s) = 3 /\ s[1] = s[2] /\ s[2] = s[3]

\* s.slice(-n): the last n characters.
LastChars(s, n) == SubSeq(s, IF Len(s) > n THEN Len(s) - n + 1 ELSE 1, Len(s))

\* CompoundPattern.match(left, right) on the texts at the boundary.
CompoundPatternMatch(pattern, left, right) ==
  EndsWith(left.text, pattern.left) /\ StartsWith(right.text, pattern.right)

\* The test isBadCompound applies to the boundary after part idx (1-based).
BadBoundary(aff, dic, lk, compound, idx) ==
  LET leftParadigm == compound[idx]
      rightParadigm == compound[idx + 1]
      left == leftParadigm.text
      right == rightParadigm.text
      rightC == IF right = <<>> THEN <<>> ELSE <<right[1]>>
      leftC == IF left = <<>> THEN <<>> ELSE <<left[Len(left)]>>
  IN \/ hasFlag(dic, left, aff.COMPOUNDFORBIDFLAG, FALSE)
     \/ affixForms(aff, dic, LKTo(lk, left \o <<" ">> \o right), TRUE, FALSE, NoLKFlags) # <<>>
     \/ /\ aff.CHECKCOMPOUNDREP
        /\ \E c \in Range(replchars(left \o right, aff.REP)) :
             ~c.multi /\ affixForms(aff, dic, LKTo(lk, c.text), TRUE, FALSE, NoLKFlags) # <<>>
     \/ /\ aff.CHECKCOMPOUNDTRIPLE
        /\ \/ isTriplet(LastChars(left, 2) \o Slice(right, 0, 1))
           \/ isTriplet(LastChars(left, 1) \o Slice(right, 0, 2))
     \/ /\ aff.CHECKCOMPOUNDCASE
        /\ \/ (rightC # <<>> /\ isUppercased(rightC[1]))
           \/ (leftC # <<>> /\ isUppercased(leftC[1]))
        /\ rightC # <<"-">>
        /\ leftC # <<"-">>
     \/ \E i \in 1..Len(aff.CHECKCOMPOUNDPATTERN) :
          CompoundPatternMatch(aff.CHECKCOMPOUNDPATTERN[i], leftParadigm, rightParadigm)
     \/ aff.CHECKCOMPOUNDDUP /\ left = right /\ idx = Len(compound) - 1

\* isBadCompound(word, compound)
isBadCompound(aff, dic, lk, compound) ==
  \/ /\ aff.FORCEUCASE # NoFlag
     /\ lk.type # CapType.ALL
     /\ lk.type # CapType.INIT
     /\ hasFlag(dic, compound[Len(compound)].text, aff.FORCEUCASE, FALSE)
  \/ \E idx \in 1..(Len(compound) - 1) : BadBoundary(aff, dic, lk, compound, idx)

\* A SIMPLIFIEDTRIPLE form that keeps the text of the lengthened piece.
TripleFormLong(form, beg) == form

\* form.replace({ text: beg.word }): the form found for the lengthened piece
\* records the piece as it stands in the word.
TripleForm(form, beg) == [form EXCEPT !.text = beg.word]

\* Split positions from the first character on, whatever COMPOUNDMIN is.
SplitPositionsFromOne(aff, lk) ==
  [k \in 1..(IF Len(lk.word) > 1 THEN Len(lk.word) - 1 ELSE 0) |-> k]

\* The split positions both compounding regimes try.
SplitPositions(aff, lk) ==
  [k \in 1..(IF Len(lk.word) - 2 * aff.COMPOUNDMIN + 1 > 0
             THEN Len(lk.word) - 2 * aff.COMPOUNDMIN + 1 ELSE 0) |-> aff.COMPOUNDMIN + k - 1]

\* compoundsByFlags(word, allowNoSuggest, depth)
RECURSIVE compoundsByFlags(_, _, _, _, _)
compoundsByFlags(aff, dic, lk, allowNoSuggest, depth) ==
  LET forbiddenFlags == IF aff.COMPOUNDFORBIDFLAG # NoFlag THEN {aff.COMPOUNDFORBIDFLAG} ELSE {}
      permitFlags == IF aff.COMPOUNDPERMITFLAG # NoFlag THEN {aff.COMPOUNDPERMITFLAG} ELSE {}
      compoundpos == IF depth > 0 THEN CompoundPos.MIDDLE ELSE CompoundPos.BEGIN
      prefixFlags == IF depth > 0 THEN permitFlags ELSE {}
      flags == MkLKFlags(prefixFlags, permitFlags, forbiddenFlags)
      beg(pos) == [LKTo(lk, Slice(lk.word, 0, pos)) EXCEPT !.pos = compoundpos]
      rest(pos) == [LKTo(lk, SliceFrom(lk.word, pos)) EXCEPT !.pos = compoundpos]
      \* [form, ...partial] for every form and every partial
      cross(forms, partials) ==
        FlatMap(forms, LAMBDA form : FlatMap(partials, LAMBDA partial : <<<<form>> \o partial>>))
      tripled(forms, b) == [i \in 1..Len(forms) |-> TripleForm(forms[i], b)]
  IN (IF depth > 0
      THEN FlatMap(affixForms(aff, dic, LKShift(lk, CompoundPos.END), allowNoSuggest, FALSE,
                              MkLKFlags(permitFlags, {}, forbiddenFlags)),
                   LAMBDA form : <<<<form>>>>)
      ELSE <<>>)
     \o (IF Len(lk.word) < aff.COMPOUNDMIN * 2 THEN <<>>
         ELSE IF aff.COMPOUNDWORDMAX # 0 /\ depth > aff.COMPOUNDWORDMAX THEN <<>>
         ELSE FlatMap(SplitPositions(aff, lk), LAMBDA pos :
                cross(affixForms(aff, dic, beg(pos), allowNoSuggest, FALSE, flags),
                      compoundsByFlags(aff, dic, rest(pos), allowNoSuggest, depth + 1))
                \o (IF aff.SIMPLIFIEDTRIPLE /\ LKAt(beg(pos), -1) = LKAt(rest(pos), 0)
                    THEN cross(tripled(affixForms(aff, dic,
                                                  LKTo(beg(pos), beg(pos).word \o LKAt(beg(pos), -1)),
                                                  allowNoSuggest, FALSE, flags),
                                       beg(pos)),
                               compoundsByFlags(aff, dic, rest(pos), allowNoSuggest, depth + 1))
                    ELSE <<>>)))

\* compoundsByRules(word, prev, rules)
RECURSIVE compoundsByRules(_, _, _, _, _)
compoundsByRules(aff, dic, lk, prev, rules) ==
  LET asLast ==
        IF prev # <<>>
        THEN FlatMap(homonyms(dic, lk.word, FALSE),
               LAMBDA homonym :
                 IF \E r \in 1..Len(rules) :
                      RuleMatch(rules[r], flagSets(prev \o <<homonym>>), FALSE)
                 THEN <<<<IdentityForm(lk.word)>>>>
                 ELSE <<>>)
        ELSE <<>>
      AtPos(pos) ==
        LET beg == LKTo(lk, Slice(lk.word, 0, pos))
        IN FlatMap(homonyms(dic, beg.word, FALSE),
             LAMBDA homonym :
               LET parts == prev \o <<homonym>>
                   compoundRules == Filter(rules, LAMBDA rule : RuleMatch(rule, flagSets(parts), TRUE))
               IN IF compoundRules # <<>>
                  THEN FlatMap(compoundsByRules(aff, dic, LKTo(lk, SliceFrom(lk.word, pos)),
                                                parts, compoundRules),
                               LAMBDA rest : <<<<IdentityForm(beg.word)>> \o rest>>)
                  ELSE <<>>)
  IN asLast
       \o (IF Len(lk.word) < aff.COMPOUNDMIN * 2 THEN <<>>
           ELSE IF aff.COMPOUNDWORDMAX # 0 /\ Len(prev) >= aff.COMPOUNDWORDMAX THEN <<>>
           ELSE FlatMap(SplitPositions(aff, lk), AtPos))

\* compoundForms(word, allowNoSuggest)
compoundForms(aff, dic, lk, allowNoSuggest) ==
  IF /\ aff.FORBIDDENWORD # NoFlag
     /\ \E c \in Range(affixForms(aff, dic, lk, TRUE, TRUE, NoLKFlags)) :
          aff.FORBIDDENWORD \in FormFlags(c)
  THEN <<>>
  ELSE (IF aff.COMPOUNDBEGIN # NoFlag \/ aff.COMPOUNDFLAG # NoFlag
        THEN Filter(compoundsByFlags(aff, dic, lk, allowNoSuggest, 0),
                    LAMBDA compound : ~isBadCompound(aff, dic, lk, compound))
        ELSE <<>>)
       \o (IF aff.COMPOUNDRULE # <<>>
           THEN Filter(compoundsByRules(aff, dic, lk, <<>>, aff.COMPOUNDRULE),
                       LAMBDA compound : ~isBadCompound(aff, dic, lk, compound))
           ELSE <<>>)


\* --------------------------------------------------------------- lookup

\* A recursion cap two levels deeper.
DeeperBreakDepth == 10 + 2

\* The recursion cap of breakWord.
MaxBreakDepth == 10

\* [...].filter(Boolean): drop the empty strings.
NonEmpty(words) == Filter(words, LAMBDA w : w # <<>>)

\* breakWord(aff, text, depth): the ways to split the text at BREAK patterns.
RECURSIVE breakWord(_, _, _)
breakWord(aff, text, depth) ==
  IF depth > MaxBreakDepth THEN <<>>
  ELSE <<NonEmpty(<<text>>)>>
         \o Flatten([p \in 1..Len(aff.BREAK) |->
              LET ms == MatchAll(text, aff.BREAK[p]) IN
              Flatten([m \in 1..Len(ms) |->
                LET start == Slice(text, 0, ms[m])
                    rest == SliceFrom(text, ms[m] + Len(aff.BREAK[p].lit))
                    breakings == breakWord(aff, rest, depth + 1)
                IN [b \in 1..Len(breakings) |-> NonEmpty(<<start>> \o breakings[b])]])])

\* ConvTable.match(word): at each position the longest matching pattern of
\* the table is replaced, any other character is kept.
RECURSIVE ConvMatchFrom(_, _, _)
ConvMatchFrom(table, word, i) ==
  IF i >= Len(word) THEN <<>>
  ELSE LET hits == {k \in 1..Len(table) :
                      table[k].pattern # <<>>
                        /\ MatchesAt(word, MkPattern(table[k].pattern, FALSE, FALSE), i)}
       IN IF hits = {} THEN <<word[i + 1]>> \o ConvMatchFrom(table, word, i + 1)
          ELSE LET k == CHOOSE h \in hits :
                          \A g \in hits : \/ Len(table[g].pattern) < Len(table[h].pattern)
                                          \/ (Len(table[g].pattern) = Len(table[h].pattern) /\ h <= g)
               IN table[k].replacement \o ConvMatchFrom(table, word, i + Len(table[k].pattern))

ConvMatch(table, word) == ConvMatchFrom(table, word, 0)

\* word.replaceAll(ch, "") for each character of IGNORE.
StripIgnored(aff, word) == Filter(word, LAMBDA c : c \notin aff.IGNORE)

\* The conversion Lookup.check and Lookup.stems apply first: ICONV, then IGNORE.
Preprocess(aff, word) ==
  StripIgnored(aff, IF aff.ICONV # <<>> THEN ConvMatch(aff.ICONV, word) ELSE word)

\* NUMBER_REGEX.test(word): digits, optionally a separator and more digits.
IsNumber(word) ==
  LET Digits == {"0", "1", "2", "3", "4", "5", "6", "7", "8", "9"}
  IN /\ word # <<>>
     /\ \A i \in 1..Len(word) : word[i] \in Digits \cup {"."}
     /\ word[1] \in Digits /\ word[Len(word)] \in Digits
     /\ Cardinality({i \in 1..Len(word) : word[i] = "."}) <= 1

\* Lookup.isWarn(stem)
isWarn(aff, dic, stem) == hasFlag(dic, stem, aff.WARN, TRUE)

\* Lookup.isForbidden(stem)
isForbidden(aff, dic, stem) ==
  \/ hasFlag(dic, stem, aff.FORBIDDENWORD, TRUE)
  \/ (aff.FORBIDWARN /\ hasFlag(dic, stem, aff.WARN, TRUE))

\* The options of a lookup (LKC), with their defaults filled in.
MkLKC(caps, allowNoSuggest, affixFormsOn, compoundFormsOn) ==
  [caps |-> caps, allowNoSuggest |-> allowNoSuggest,
   affixForms |-> affixFormsOn, compoundForms |-> compoundFormsOn]

DefaultLKC == MkLKC(TRUE, TRUE, TRUE, TRUE)

\* What Lookup.forms yields for one variant: the affix forms (one part
\* each), then the compound forms.
FormsOfVariant(aff, dic, lkword, captype, variant, lkc) ==
  LET single(forms) == [i \in 1..Len(forms) |-> [compound |-> FALSE, parts |-> <<forms[i]>>]]
      multi(cs) == [i \in 1..Len(cs) |-> [compound |-> TRUE, parts |-> cs[i]]]
      at(lk) ==
        (IF lkc.affixForms
         THEN single(Filter(affixForms(aff, dic, lk, lkc.allowNoSuggest, FALSE, NoLKFlags),
                LAMBDA form : ~(/\ form.inDictionary # <<>>
                                /\ captype = CapType.ALL
                                /\ includes(aff.KEEPCASE, FormFlags(form))
                                /\ isSharps(aff, form.inDictionary[1].stem)
                                /\ isSharps(aff, lkword.word))))
         ELSE <<>>)
        \o (IF lkc.compoundForms
            THEN multi(compoundForms(aff, dic, lk, lkc.allowNoSuggest))
            ELSE <<>>)
  IN at(LKTo(lkword, variant))

\* Lookup.forms(word, lkc)
LookupForms(aff, dic, word, lkc) ==
  LET captype == guess(word)
      vs == IF lkc.caps THEN variants(word) ELSE <<word>>
      lkword == MkLKWord(word, captype, PosNone)
  IN FlatMap(vs, LAMBDA variant : FormsOfVariant(aff, dic, lkword, captype, variant, lkc))

\* Lookup.correct(word, lkc)
LookupCorrect(aff, dic, word, lkc) == LookupForms(aff, dic, word, lkc) # <<>>

\* Lookup.stems(word, lkc)
stems(aff, dic, word, lkc) ==
  FlatMap(LookupForms(aff, dic, Preprocess(aff, word), lkc),
          LAMBDA f : [i \in 1..Len(f.parts) |-> f.parts[i].stem])

\* The splits of breakWord all of whose pieces Lookup.correct accepts.
GoodBreaks(aff, dic, word, caps, allowNoSuggest) ==
  Filter(breakWord(aff, word, 0),
         LAMBDA words : \A i \in 1..Len(words) :
            LookupCorrect(aff, dic, words[i], MkLKC(caps, allowNoSuggest, TRUE, TRUE)))

MkResult(correct, forbidden, warn) == [correct |-> correct, forbidden |-> forbidden, warn |-> warn]

\* Lookup.check without its early return for forbidden words.
checkLenient(aff, dic, word, caps, allowNoSuggest) ==
  LET forbidden == isForbidden(aff, dic, word)
      warn == isWarn(aff, dic, word)
      converted == Preprocess(aff, word)
  IN IF IsNumber(converted) THEN MkResult(TRUE, forbidden, warn)
     ELSE MkResult(GoodBreaks(aff, dic, converted, caps, allowNoSuggest) # <<>>, forbidden, warn)

\* Lookup.check trying only the unbroken word.
checkUnbroken(aff, dic, word, caps, allowNoSuggest) ==
  LET forbidden == isForbidden(aff, dic, word)
      warn == isWarn(aff, dic, word)
      converted == Preprocess(aff, word)
  IN IF forbidden THEN MkResult(FALSE, forbidden, warn)
     ELSE IF IsNumber(converted) THEN MkResult(TRUE, forbidden, warn)
     ELSE MkResult(LookupCorrect(aff, dic, converted, MkLKC(caps, allowNoSuggest, TRUE, TRUE)),
                   forbidden, warn)

\* Lookup.check(word, caps, allowNoSuggest)
check(aff, dic, word, caps, allowNoSuggest) ==
  LET forbidden == isForbidden(aff, dic, word)
      warn == isWarn(aff, dic, word)
      converted == Preprocess(aff, word)
  IN IF forbidden THEN MkResult(FALSE, forbidden, warn)
     ELSE IF IsNumber(converted) THEN MkResult(TRUE, forbidden, warn)
     ELSE MkResult(GoodBreaks(aff, dic, converted, caps, allowNoSuggest) # <<>>, forbidden, warn)

\* -------------------------------------------------- reapplying affixes

\* The surface a suffix makes of a stem: the strip taken off, the add put on.
SuffixAttach(sfx, stem) == SubSeq(stem, 1, Len(stem) - Len(sfx.strip)) \o sfx.add

\* The surface a prefix makes of a stem.
PrefixAttach(pfx, stem) == pfx.add \o SliceFrom(stem, Len(pfx.strip))

\* Word.forms(similarTo): the stem and its affixed surfaces close to a word.
WordForms(aff, w, similarTo) ==
  LET suffixes == Filter(aff.SFX, LAMBDA a : a.flag \in w.flags /\ SuffixRelevant(a, w.stem)
                                             /\ EndsWith(similarTo, a.add))
      prefixes == Filter(aff.PFX, LAMBDA a : a.flag \in w.flags /\ PrefixRelevant(a, w.stem)
                                             /\ StartsWith(similarTo, a.add))
  IN <<w.stem>>
       \o [i \in 1..Len(suffixes) |-> SuffixAttach(suffixes[i], w.stem)]
       \o FlatMap(prefixes, LAMBDA prefix :
            FlatMap(suffixes, LAMBDA suffix :
              IF suffix.crossproduct /\ prefix.crossproduct
              THEN <<PrefixAttach(prefix, SuffixAttach(suffix, w.stem))>> ELSE <<>>))
       \o [i \in 1..Len(prefixes) |-> PrefixAttach(prefixes[i], w.stem)]

\* ------------------------------------------------------ edit permutators

\* How far apart two characters may be for longswapchar and movechar.
MAX_CHAR_DISTANCE == 4

Min(a, b) == IF a < b THEN a ELSE b

Max(a, b) == IF a > b THEN a ELSE b

\* [f(i) : i = lo .. hi], concatenated; empty when hi < lo.
Gather(lo, hi, F(_)) == IF hi < lo THEN <<>> ELSE Flatten([k \in 1..(hi - lo + 1) |-> F(lo + k - 1)])

\* mapchars(word, MAP): one occurrence of a member of a MAP class replaced
\* by another member of the class.
mapchars(word, maptable) ==
  IF Len(word) < 2 THEN <<>>
  ELSE FlatMap(maptable, LAMBDA options :
         FlatMap(options, LAMBDA option :
           Gather(0, Len(word) - 1, LAMBDA pos :
             IF word[pos + 1] # option THEN <<>>
             ELSE FlatMap(options, LAMBDA other :
                    IF other = option THEN <<>>
                    ELSE <<Slice(word, 0, pos) \o <<other>> \o SliceFrom(word, pos + 1)>>))))

\* swapchar(word): two adjacent characters swapped; for words of four and
\* five letters also both ends swapped at once.
swapchar(word) ==
  LET n == Len(word) IN
  IF n < 2 THEN <<>>
  ELSE Gather(0, n - 2, LAMBDA i :
         <<Slice(word, 0, i) \o <<word[i + 2], word[i + 1]>> \o SliceFrom(word, i + 2)>>)
       \o (IF n \in {4, 5}
           THEN <<<<word[2], word[1]>> \o (IF n = 5 THEN <<word[3]>> ELSE <<>>)
                    \o <<word[n], word[n - 1]>>>>
                \o (IF n = 5 THEN <<<<word[1], word[3], word[2], word[5], word[4]>>>> ELSE <<>>)
           ELSE <<>>)

\* longswapchar(word): two characters two to MAX_CHAR_DISTANCE - 1 apart swapped.
longswapchar(word) ==
  Gather(0, Len(word) - 3, LAMBDA first :
    Gather(first + 2, Min(first + MAX_CHAR_DISTANCE, Len(word)) - 1, LAMBDA second :
      <<Slice(word, 0, first) \o <<word[second + 1]>> \o Slice(word, first + 1, second)
          \o <<word[first + 1]>> \o SliceFrom(word, second + 1)>>))

\* badcharkey(word, KEY): a character replaced by its uppercase, or by a
\* neighbour of it on its keyboard row.
badcharkey(word, layout) ==
  Gather(0, Len(word) - 1, LAMBDA i :
    LET c == word[i + 1]
        before == Slice(word, 0, i)
        after == SliceFrom(word, i + 1)
    IN (IF UpperChar(c) # c THEN <<before \o <<UpperChar(c)>> \o after>> ELSE <<>>)
       \o Gather(1, Len(layout), LAMBDA pos :
            IF layout[pos] # c THEN <<>>
            ELSE (IF pos > 1 /\ layout[pos - 1] # "|"
                  THEN <<before \o <<layout[pos - 1]>> \o after>> ELSE <<>>)
                 \o (IF pos < Len(layout) /\ layout[pos + 1] # "|"
                     THEN <<before \o <<layout[pos + 1]>> \o after>> ELSE <<>>)))

\* extrachar(word): one character deleted.
extrachar(word) ==
  IF Len(word) < 2 THEN <<>>
  ELSE Gather(0, Len(word) - 1, LAMBDA i : <<Slice(word, 0, i) \o SliceFrom(word, i + 1)>>)

\* forgotchar(word, TRY): a TRY character inserted at every position.
forgotchar(word, trystring) ==
  FlatMap(trystring, LAMBDA c :
    Gather(0, Len(word), LAMBDA i : <<Slice(word, 0, i) \o <<c>> \o SliceFrom(word, i)>>))

\* movechar(word): one character moved two to MAX_CHAR_DISTANCE places
\* forward, then backward (one place is what swapchar does).
movechar(word) ==
  LET n == Len(word) IN
  IF n < 2 THEN <<>>
  ELSE Gather(0, n - 1, LAMBDA from :
         Gather(from + 3, Min(n, from + MAX_CHAR_DISTANCE + 1), LAMBDA to :
           <<Slice(word, 0, from) \o Slice(word, from + 1, to) \o <<word[from + 1]>>
               \o SliceFrom(word, to)>>))
       \o Gather(0, n - 1, LAMBDA k :
            LET from == n - 1 - k
                lo == Max(0, from - MAX_CHAR_DISTANCE + 1)
            IN Gather(0, from - 2 - lo, LAMBDA j :
                 LET to == from - 2 - j
                 IN <<Slice(word, 0, to) \o <<word[from + 1]>> \o Slice(word, to, from)
                        \o SliceFrom(word, from + 1)>>))

\* badchar(word, TRY): one character replaced by a TRY character.
badchar(word, trystring) ==
  FlatMap(trystring, LAMBDA c :
    Gather(0, Len(word) - 1, LAMBDA k :
      LET i == Len(word) - 1 - k
      IN IF word[i + 1] = c THEN <<>>
         ELSE <<Slice(word, 0, i) \o <<c>> \o SliceFrom(word, i + 1)>>))

\* doubletwochars(word): a bigram typed twice (abab) reduced to one.
doubletwochars(word) ==
  IF Len(word) < 5 THEN <<>>
  ELSE Gather(3, Len(word) - 1, LAMBDA i :
         IF word[i - 1] = word[i + 1] /\ word[i - 2] = word[i]
         THEN <<Slice(word, 0, i - 1) \o SliceFrom(word, i + 1)>> ELSE <<>>)

\* twowords(word): the word split in two at every inner position.
twowords(word) ==
  Gather(1, Len(word) - 1, LAMBDA i : <<<<Slice(word, 0, i), SliceFrom(word, i)>>>>)

\* ------------------------------------------------------------- suggester

\* The limits of the suggester that are not affix directives.
MAX_SUGGESTIONS == 15

MAX_PHONET_SUGGESTIONS == 2

\* The kinds of edit after which nothing weaker is tried.
GOOD_EDITS == {"SPACEWORD", "UPPERCASE", "REPLCHARS"}

\* A Suggestion or MultiWordSuggestion as Suggest.filter treats it: the
\* text it would be yielded with, and the words that must all be correct.
MkCandidate(text, kind, words) == [text |-> text, kind |-> kind, words |-> words]

\* Suggest.dashes, set by the constructor from TRY.
SuggestDashes(aff) == "-" \in Range(aff.TRY) \/ "a" \in Range(aff.TRY)

\* Suggest.permutations(word), each MultiWordSuggestion already laid out
\* as the stringified suggestions Suggest.filter makes of it.
permutations(aff, word) ==
  LET plain(texts, kind) == [i \in 1..Len(texts) |-> MkCandidate(texts[i], kind, <<texts[i]>>)]
      pairs(ws, allowDash, kind) ==
        <<MkCandidate(JoinWith(ws, <<" ">>), kind, ws)>>
          \o (IF allowDash THEN <<MkCandidate(JoinWith(ws, <<"-">>), kind, ws)>> ELSE <<>>)
  IN <<MkCandidate(uppercase(word), "UPPERCASE", <<uppercase(word)>>)>>
     \o FlatMap(replchars(word, aff.REP), LAMBDA s :
          IF s.multi THEN pairs(s.words, FALSE, "REPLCHARS")
          ELSE <<MkCandidate(s.text, "REPLCHARS", <<s.text>>)>>)
     \o FlatMap(twowords(word), LAMBDA ws :
          <<MkCandidate(JoinWith(ws, <<" ">>), "SPACEWORD", <<JoinWith(ws, <<" ">>)>>)>>
            \o (IF SuggestDashes(aff)
                THEN <<MkCandidate(JoinWith(ws, <<"-">>), "SPACEWORD", <<JoinWith(ws, <<"-">>)>>)>>
                ELSE <<>>))
     \o plain(mapchars(word, aff.MAP), "MAPCHARS")
     \o plain(swapchar(word), "SWAPCHAR")
     \o plain(longswapchar(word), "LONGSWAPCHAR")
     \o plain(badcharkey(word, aff.KEY), "BADCHARKEY")
     \o plain(extrachar(word), "EXTRACHAR")
     \o plain(forgotchar(word, aff.TRY), "FORGOTCHAR")
     \o plain(movechar(word), "MOVECHAR")
     \o plain(badchar(word, aff.TRY), "BADCHAR")
     \o plain(doubletwochars(word), "DOUBLETWOCHARS")
     \o (IF aff.NOSPLITSUGS THEN <<>>
         ELSE FlatMap(twowords(word), LAMBDA ws : pairs(ws, SuggestDashes(aff), "TWOWORDS")))

\* Suggest.correct(word, compounds); compounds is FALSE where the code
\* leaves it undefined: affix forms are then searched, and compound forms
\* keep their default, which is to be searched too.
SuggestCorrect(aff, dic, word, compounds) ==
  LookupCorrect(aff, dic, word, MkLKC(FALSE, FALSE, ~compounds, TRUE))

\* Suggest.filter: whether the candidate is passed on to the handler.
FilterAccepts(aff, dic, candidate, compounds) ==
  \A i \in 1..Len(candidate.words) : SuggestCorrect(aff, dic, candidate.words[i], compounds)

\* Suggest.handle: the text the suggestion is yielded with, or none; the
\* caller adds an accepted text to the handled set.
handle(aff, dic, word, captype, handled, suggestion, checkInclusion) ==
  LET \* coerce, then the suggestion as it was if the coerced one is forbidden
      revert(coerced) ==
        IF coerced # suggestion /\ isForbidden(aff, dic, coerced) THEN suggestion ELSE coerced
      \* for HUH and HUHINIT: the character after the space as it was typed
      respace(text, pos) ==
        IF /\ captype \in {CapType.HUH, CapType.HUHINIT}
           /\ pos # -1 /\ pos + 1 < Len(text) /\ pos < Len(word)
           /\ text[pos + 2] # word[pos + 1]
           /\ UpperChar(text[pos + 2]) = word[pos + 1]
        THEN Slice(text, 0, pos + 1) \o <<word[pos + 1]>> \o SliceFrom(word, pos + 2)
        ELSE text
      spaced(text) == respace(text, IndexOfChar(text, " "))
      fresh(text) ==
        IF text \in handled THEN <<>>
        ELSE IF checkInclusion /\ \E prev \in handled : Includes(lowercase(text), lowercase(prev))
        THEN <<>>
        ELSE <<text>>
      converted(text) ==
        IF isForbidden(aff, dic, text) THEN <<>>
        ELSE fresh(IF aff.OCONV # <<>> THEN ConvMatch(aff.OCONV, text) ELSE text)
  IN converted(IF ~hasFlag(dic, suggestion, aff.KEEPCASE, FALSE) \/ isSharps(aff, suggestion)
               THEN spaced(revert(coerce(suggestion, captype)))
               ELSE suggestion)

\* ------------------------------------------------------- n-gram scoring

\* How many roots and guesses a ScoresList keeps.
NGRAM_MAX_ROOTS == 100

NGRAM_MAX_GUESSES == 200

\* The n-grams of s1, of sizes k..n, that occur in s2; when weighted, an
\* n-gram that does not occur counts against, twice at either end of s1.
\* Unweighted counting stops after a size with fewer than two hits.
RECURSIVE NgramFrom(_, _, _, _, _)
NgramFrom(k, n, s1, s2, weighted) ==
  IF k > n THEN 0
  ELSE LET hit(pos) == Includes(s2, SubSeq(s1, pos, pos + k - 1))
           last == Len(s1) - k + 1
           hits == Cardinality({pos \in 1..last : hit(pos)})
           misses == Cardinality({pos \in 1..last : ~hit(pos)})
                       + Cardinality({pos \in {1, last} : pos <= last /\ ~hit(pos)})
           ns == IF weighted THEN hits - misses ELSE hits
       IN ns + (IF ns < 2 /\ ~weighted THEN 0 ELSE NgramFrom(k + 1, n, s1, s2, weighted))

\* ngram(n, s1, s2): the count above, less a penalty for a difference of
\* length of more than two ("longer": only when s2 is the longer one).
ngram(n, s1, s2, weighted, mode) ==
  LET diff == Len(s2) - Len(s1)
      penalty == CASE mode = "longer" -> diff - 2
                   [] mode = "any" -> (IF diff < 0 THEN 0 - diff ELSE diff) - 2
                   [] OTHER -> 0
      nscore == NgramFrom(1, n, s1, s2, weighted)
  IN IF s2 = <<>> THEN 0 ELSE IF penalty > 0 THEN nscore - penalty ELSE nscore

\* leftcommonsubstring: the length of the common start of two strings.
RECURSIVE leftcommonsubstring(_, _)
leftcommonsubstring(s1, s2) ==
  IF s1 = <<>> \/ s2 = <<>> \/ Head(s1) # Head(s2) THEN 0
  ELSE 1 + leftcommonsubstring(Tail(s1), Tail(s2))

\* The length of the longest common subsequence.
RECURSIVE lcslen(_, _)
lcslen(s1, s2) ==
  IF s1 = <<>> \/ s2 = <<>> THEN 0
  ELSE IF Head(s1) = Head(s2) THEN 1 + lcslen(Tail(s1), Tail(s2))
  ELSE Max(lcslen(Tail(s1), s2), lcslen(s1, Tail(s2)))

rootScore(misspelling, stem) ==
  ngram(3, misspelling, lowercase(stem), FALSE, "longer")
    + leftcommonsubstring(misspelling, lowercase(stem))

roughAffixScore(misspelling, form) ==
  ngram(Len(misspelling), misspelling, form, FALSE, "any")
    + leftcommonsubstring(misspelling, form)

\* scoreThreshold(misspelling): the rough score of the word against itself
\* with every fourth character spoiled, averaged over three offsets, less one.
scoreThreshold(misspelling) ==
  LET mangled(start) == [i \in 1..Len(misspelling) |->
                           IF i > start /\ (i - 1 - start) % 4 = 0 THEN "*" ELSE misspelling[i]]
      total == ngram(Len(misspelling), misspelling, mangled(1), FALSE, "any")
                 + ngram(Len(misspelling), misspelling, mangled(2), FALSE, "any")
                 + ngram(Len(misspelling), misspelling, mangled(3), FALSE, "any")
  IN (total \div 3) - 1

\* preciseAffixScore: over 1000 for the same letters in another case,
\* under -100 for a candidate sharing too few bigrams with the misspelling
\* (the measure is maxDiff: fact = (10 - maxDiff) / 5), else a small sum.
preciseAffixScore(misspelling, candidate, maxDiff, prior, hasPhonetic) ==
  LET lcs == lcslen(misspelling, candidate)
      n == Min(Len(misspelling), Len(candidate))
      same == {i \in 1..n : misspelling[i] = candidate[i]}
      differ == (1..n) \ same
      isSwap == /\ Len(misspelling) = Len(candidate)
                /\ Cardinality(differ) = 2
                /\ \A i \in differ : \E j \in differ \ {i} : misspelling[i] = candidate[j]
      bigrams == ngram(2, misspelling, candidate, TRUE, "any")
                   + ngram(2, candidate, misspelling, TRUE, "any")
      lengths == Len(misspelling) + Len(candidate)
      diff == IF Len(misspelling) < Len(candidate) THEN Len(candidate) - Len(misspelling)
              ELSE Len(misspelling) - Len(candidate)
      result == 2 * lcs - diff + leftcommonsubstring(misspelling, candidate)
                  + (IF same # {} THEN 1 ELSE 0) + (IF isSwap THEN 10 ELSE 0)
                  + ngram(4, misspelling, candidate, FALSE, "any") + bigrams
      questionable == IF maxDiff >= 0 THEN 5 * bigrams < lengths * (10 - maxDiff)
                      ELSE bigrams < lengths
  IN IF Len(misspelling) = Len(candidate) /\ lcs = Len(misspelling) THEN prior + 2000
     ELSE IF questionable THEN result - 1000 ELSE result

\* ScoresList.finish: the best N of the scored items, best first; equal
\* scores keep the order they were added in.
RECURSIVE SortByScore(_)
SortByScore(items) ==
  IF items = <<>> THEN <<>>
  ELSE LET rest == SortByScore(Tail(items))
           h == Head(items)
       IN SelectSeq(rest, LAMBDA x : x.score > h.score) \o <<h>>
            \o SelectSeq(rest, LAMBDA x : x.score <= h.score)

ScoresFinish(items, N) == Slice(SortByScore(items), 0, N)

\* ------------------------------------------------- n-gram suggestions

\* Suggest.ngramWords: the Words carrying none of FORBIDDENWORD, NOSUGGEST
\* and ONLYINCOMPOUND.
ngramWords(aff, dic) ==
  Filter(dic, LAMBDA w :
    w.flags \cap ({aff.FORBIDDENWORD, aff.NOSUGGEST, aff.ONLYINCOMPOUND} \ {NoFlag}) = {})

\* NgramSuggestionBuilder.filterGuesses, from the i-th guess on.
RECURSIVE filterGuesses(_, _, _, _, _, _)
filterGuesses(guesses, i, seen, found, known, onlyMaxDiff) ==
  IF i > Len(guesses) THEN <<>>
  ELSE LET score == guesses[i].score
           value == guesses[i].real
           veryBad == ~(score > 1000) /\ score < -100
           fresh == ~\E k \in known : Includes(k, value)
       IN IF seen /\ score <= 1000 THEN <<>>
          ELSE IF veryBad /\ (found > 0 \/ onlyMaxDiff) THEN <<>>
          ELSE (IF fresh THEN <<value>> ELSE <<>>)
                 \o filterGuesses(guesses, i + 1, seen \/ score > 1000 \/ veryBad,
                                  IF fresh THEN found + 1 ELSE found, known, onlyMaxDiff)

\* The builder of Suggest.ngramBuilder(word, handled), stepped over the
\* n-gram words, and the guesses its finish() hands to filterGuesses: those
\* above the threshold, scored precisely, best first. No Word here has
\* alternative spellings.
NgramGuesses(aff, dic, word) ==
  LET misspelling == lowercase(word)
      near(w) == Len(w.stem) - Len(misspelling) <= 4 /\ Len(misspelling) - Len(w.stem) <= 4
      scored(words) ==
        [i \in 1..Len(words) |->
           [score |-> rootScore(misspelling, words[i].stem), root |-> words[i]]]
      guessOf(form, score) ==
        IF score > scoreThreshold(misspelling)
        THEN <<[score |-> score, lower |-> lowercase(form), real |-> form]>> ELSE <<>>
      guesses(roots) ==
        FlatMap(roots, LAMBDA r :
          FlatMap(WordForms(aff, r.root, misspelling), LAMBDA form :
            guessOf(form, roughAffixScore(misspelling, form))))
      precise(best) ==
        [i \in 1..Len(best) |->
           [score |-> preciseAffixScore(misspelling, best[i].lower, aff.MAXDIFF,
                                        best[i].score, FALSE),
            real |-> best[i].real]]
  IN SortByScore(precise(ScoresFinish(
       guesses(ScoresFinish(scored(Filter(ngramWords(aff, dic), near)), NGRAM_MAX_ROOTS)),
       NGRAM_MAX_GUESSES)))

\* The builder dropping every very bad guess, whatever ONLYMAXDIFF says.
NgramFinishOnlyMaxDiff(aff, dic, word, handled) ==
  filterGuesses(NgramGuesses(aff, dic, word), 1, FALSE, 0, {lowercase(h) : h \in handled}, TRUE)

\* NgramSuggestionBuilder.finish() of the builder of
\* Suggest.ngramBuilder(word, handled).
NgramFinish(aff, dic, word, handled) ==
  filterGuesses(NgramGuesses(aff, dic, word), 1, FALSE, 0, {lowercase(h) : h \in handled},
                aff.ONLYMAXDIFF)

\* ------------------------------------------- the suggestions generator

\* The generator of one call of Suggest.suggestions(word) where it is
\* suspended: which query it answers, its stage, the index of the variant, the position in the
\* candidates of the stage, how many the stage has yielded, the flags and
\* the handled set of the call, and every Suggestion yielded so far; the
\* caller keeps, for each Suggestion, where the generator was suspended.
InitFrame(word) ==
  [query |-> "suggestions", word |-> word, stage |-> "start", idx |-> 0, cur |-> 0, taken |-> 0, ci |-> 0,
   goodEditsFound |-> FALSE, noCompound |-> FALSE, handled |-> {}, pending |-> <<>>,
   out |-> <<>>, trail |-> <<>>]

MkSuggestion(text, kind) == [text |-> text, kind |-> kind]

\* handle(...) of a closure of the call, then the yield of what it returns.
Handled(aff, dic, f, text, kind, checkInclusion) ==
  LET yield(h) ==
        IF h = <<>> THEN f
        ELSE [f EXCEPT !.handled = @ \cup {h[1]}, !.out = Append(@, MkSuggestion(h[1], kind))]
  IN yield(handle(aff, dic, f.word, guess(f.word), f.handled, text, checkInclusion))

\* Good edits never remembered.
AfterEditForgetting(g, kind, compounds) ==
  [g EXCEPT !.noCompound = @ \/ (~compounds /\ kind \in {"UPPERCASE", "REPLCHARS", "MAPCHARS"}),
            !.stage = IF ~compounds /\ kind = "SPACEWORD" THEN "done" ELSE @]

\* The loops going on after a SPACEWORD.
AfterEditGoingOn(g, kind, compounds) ==
  [g EXCEPT !.goodEditsFound = @ \/ kind \in GOOD_EDITS,
            !.noCompound = @ \/ (~compounds /\ kind \in {"UPPERCASE", "REPLCHARS", "MAPCHARS"})]

\* The compound pass never suppressed.
AfterEditCompounding(g, kind, compounds) ==
  [g EXCEPT !.goodEditsFound = @ \/ kind \in GOOD_EDITS,
            !.stage = IF ~compounds /\ kind = "SPACEWORD" THEN "done" ELSE @]

\* The body of the loops over this.edits(...) after the yield: what the
\* kind of the Suggestion sets, and the return on SPACEWORD in the loop over
\* the edits of the variant; the loop over the compound edits has no switch.
AfterEdit(g, kind, compounds) ==
  [g EXCEPT !.goodEditsFound = @ \/ kind \in GOOD_EDITS,
            !.noCompound = @ \/ (~compounds /\ kind \in {"UPPERCASE", "REPLCHARS", "MAPCHARS"}),
            !.stage = IF ~compounds /\ kind = "SPACEWORD" THEN "done" ELSE @]

\* The first of the candidates lo..hi that Suggest.filter passes on and the
\* handler accepts, as the frame after its yield; none if there is none.
\* A candidate that is turned down leaves the handled set as it was.
RECURSIVE FirstEdit(_, _, _, _, _, _, _)
FirstEdit(aff, dic, f, cands, compounds, lo, hi) ==
  LET taken(g, c) ==
        IF Len(g.out) = Len(f.out) THEN <<>>
        ELSE <<AfterEdit([g EXCEPT !.cur = lo, !.taken = @ + 1], c.kind, compounds)>>
      orElse(a, b) == IF a # <<>> THEN a ELSE b
  IN IF lo > hi THEN <<>>
     ELSE IF lo = hi
     THEN (IF FilterAccepts(aff, dic, cands[lo], compounds)
           THEN taken(Handled(aff, dic, f, cands[lo].text, cands[lo].kind, FALSE), cands[lo])
           ELSE <<>>)
     ELSE orElse(FirstEdit(aff, dic, f, cands, compounds, lo, (lo + hi) \div 2),
                 FirstEdit(aff, dic, f, cands, compounds, (lo + hi) \div 2 + 1, hi))

\* Suggest.edits(word, handle, limit, compounds) from the position of the
\* frame to its next yield, or to its end, where the loop of the caller
\* goes on to the compound pass or to what follows it.
edits(aff, dic, f, cands, limit, compounds) ==
  LET resume(hit) ==
        IF hit # <<>> THEN hit[1]
        ELSE [f EXCEPT !.stage = IF compounds \/ f.noCompound THEN "gate" ELSE "cpd",
                       !.cur = 0, !.taken = 0]
  IN resume(IF f.taken >= limit THEN <<>>
            ELSE FirstEdit(aff, dic, f, cands, compounds, f.cur + 1, Len(cands)))

\* The FORCEUCASE short-circuit at the start of Suggest.suggestions;
\* `correct` is this.correct(capitalized).
ForceUcase(aff, dic, f, correct) ==
  IF aff.FORCEUCASE # NoFlag /\ guess(f.word) = CapType.NO /\ correct
  THEN [Handled(aff, dic, f, capitalize(f.word)[1], "FORCEUCASE", FALSE) EXCEPT !.stage = "done"]
  ELSE [f EXCEPT !.stage = "case"]

RECURSIVE suggestions(_, _, _)

\* The generator run from one suspension point to the next change of
\* stage or yield; `correct` is this.correct(...) of the word the stage
\* asks about: the capitalized word, the variant, or the chunk.
Resume(aff, dic, f, correct) ==
  LET word == f.word
      vs == corrections(f.word)
      chunks == SplitOn(f.word, "-")
      nextVariant == [f EXCEPT !.stage = "case", !.idx = @ + 1, !.cur = 0, !.pending = <<>>]
      dashed(inner) ==
        IF f.cur >= Len(inner) THEN [f EXCEPT !.ci = @ + 1, !.cur = 0]
        \* lookup.check(candidate) is an object, and so is true
        ELSE [f EXCEPT !.cur = @ + 1,
                       !.out = Append(@, MkSuggestion(
                                 JoinWith([chunks EXCEPT ![f.ci + 1] = inner[f.cur + 1].text], <<"-">>),
                                 "DASHES"))]
  IN
  CASE f.stage = "start" -> ForceUcase(aff, dic, f, correct)
    [] f.stage = "case" ->
         IF f.idx >= Len(vs) THEN [f EXCEPT !.stage = "done"]
         ELSE [(IF f.idx > 0 /\ correct
                THEN Handled(aff, dic, f, vs[f.idx + 1], "CASE", FALSE) ELSE f)
               EXCEPT !.stage = "edits", !.cur = 0, !.taken = 0, !.noCompound = FALSE]
    [] f.stage \in {"edits", "cpd"} ->
         edits(aff, dic, f,
               permutations(aff, IF f.stage = "edits" THEN vs[f.idx + 1] ELSE word),
               IF f.stage = "edits" THEN MAX_SUGGESTIONS ELSE aff.MAXCPDSUGS,
               f.stage = "cpd")
    [] f.stage = "gate" ->
         IF f.goodEditsFound THEN [f EXCEPT !.stage = "done"]
         ELSE IF "-" \in Range(word) /\ ~\E h \in f.handled : "-" \in Range(h)
         THEN [f EXCEPT !.stage = "dashes", !.ci = 0, !.cur = 0]
         ELSE [f EXCEPT !.stage = "ngrams"]
    [] f.stage = "dashes" ->
         IF f.ci >= Len(chunks) THEN [f EXCEPT !.stage = "ngrams", !.cur = 0]
         ELSE IF correct THEN [f EXCEPT !.ci = @ + 1, !.cur = 0]
         ELSE dashed(suggestions(aff, dic, chunks[f.ci + 1]))
    [] f.stage = "ngrams" ->
         IF aff.MAXNGRAMSUGS = 0 THEN nextVariant
         ELSE [f EXCEPT !.stage = "ngram", !.cur = 0,
                        !.pending = Slice(NgramFinish(aff, dic, word, f.handled), 0, aff.MAXNGRAMSUGS)]
    [] f.stage = "ngram" ->
         IF f.cur >= Len(f.pending) THEN nextVariant
         ELSE [Handled(aff, dic, f, f.pending[f.cur + 1], "NGRAM", TRUE) EXCEPT !.cur = @ + 1]
    [] OTHER -> f

\* The generator run from one suspension point to the next, with the
\* answer of this.correct(word) for the word the stage passes to it.
Advance(aff, dic, f) ==
  LET asked ==
        CASE f.stage = "start" -> capitalize(f.word)
          [] f.stage = "case" -> Slice(corrections(f.word), f.idx, f.idx + 1)
          [] f.stage = "dashes" -> Slice(SplitOn(f.word, "-"), f.ci, f.ci + 1)
          [] OTHER -> <<>>
  IN Resume(aff, dic, f, asked # <<>> /\ SuggestCorrect(aff, dic, asked[1], FALSE))

\* One next() of the generator: run to the next yield, or to the end.
RECURSIVE Pull(_, _, _)
Pull(aff, dic, f) ==
  LET settle(g) == IF g.stage = "done" \/ Len(g.out) > Len(f.out) THEN g ELSE Pull(aff, dic, g)
  IN settle(Advance(aff, dic, f))

\* The generator drained.
RECURSIVE Drain(_, _, _)
Drain(aff, dic, f) == IF f.stage = "done" THEN f ELSE Drain(aff, dic, Pull(aff, dic, f))

\* Suggest.suggestions(word): everything one call yields, in order.
suggestions(aff, dic, word) == Drain(aff, dic, InitFrame(word)).out

\* -------------------------------------------------------------- engines

\* Aff as constructed with no directives.
DefaultAff ==
  [SFX |-> <<>>, PFX |-> <<>>, TRY |-> <<>>,
   KEY |-> <<"q", "w", "e", "r", "t", "y", "u", "i", "o", "p", "|", "a", "s", "d", "f", "g", "h", "j", "k", "l", "|", "z", "x", "c", "v", "b", "n", "m">>,
   MAXCPDSUGS |-> 3, MAXNGRAMSUGS |-> 4, MAXDIFF |-> 1, ONLYMAXDIFF |-> FALSE,
   NOSPLITSUGS |-> FALSE, COMPLEXPREFIXES |-> FALSE,
   BREAK |-> <<MkPattern(<<"-">>, TRUE, FALSE), MkPattern(<<"-">>, FALSE, TRUE),
               MkPattern(<<"-">>, FALSE, FALSE)>>,
   COMPOUNDRULE |-> <<>>, COMPOUNDMIN |-> 3, COMPOUNDWORDMAX |-> 0,
   COMPOUNDFLAG |-> NoFlag, COMPOUNDBEGIN |-> NoFlag, COMPOUNDMIDDLE |-> NoFlag,
   COMPOUNDEND |-> NoFlag, ONLYINCOMPOUND |-> NoFlag, COMPOUNDPERMITFLAG |-> NoFlag,
   COMPOUNDFORBIDFLAG |-> NoFlag, FORCEUCASE |-> NoFlag,
   CHECKCOMPOUNDCASE |-> FALSE, CHECKCOMPOUNDDUP |-> FALSE, CHECKCOMPOUNDREP |-> FALSE,
   CHECKCOMPOUNDTRIPLE |-> FALSE, CHECKCOMPOUNDPATTERN |-> <<>>, SIMPLIFIEDTRIPLE |-> FALSE,
   CHECKSHARPS |-> FALSE, REP |-> <<>>, MAP |-> <<>>, ICONV |-> <<>>, OCONV |-> <<>>,
   IGNORE |-> {}, NOSUGGEST |-> NoFlag, KEEPCASE |-> NoFlag, NEEDAFFIX |-> NoFlag,
   CIRCUMFIX |-> NoFlag, FORBIDDENWORD |-> NoFlag, WARN |-> NoFlag, FORBIDWARN |-> FALSE]

MkEngine(aff, dic, inputs, extra) == [aff |-> aff, dic |-> dic, inputs |-> inputs, extra |-> extra]

\* The longest text drawn from the alphabet of the BREAK scenarios.
MaxTextLen == 5

\* The engines of the lookup scenarios: affix data, word list, the words
\* looked up, and the Words a caller may add.
LookupEngine(e) ==
  LET SfxS == MkAffix("A", TRUE, <<>>, <<"s">>, <<AnyChar>>, {})
      SfxIng == MkAffix("G", TRUE, <<>>, <<"i", "n", "g">>, <<AnyChar>>, {})
      SfxIes == MkAffix("Y", TRUE, <<"y">>, <<"i", "e", "s">>, <<[neg |-> TRUE, chars |-> {"a", "e", "i", "o", "u"}], [neg |-> FALSE, chars |-> {"y"}]>>, {})
      PfxRe == MkAffix("B", TRUE, <<>>, <<"r", "e">>, <<AnyChar>>, {})
      PfxUn == MkAffix("U", TRUE, <<>>, <<"u", "n">>, <<AnyChar>>, {})
      \* the texts of at most n characters a and -
      RECURSIVE TextsOf(_)
      TextsOf(n) ==
        IF n = 0 THEN {<<>>}
        ELSE TextsOf(n - 1) \cup {Append(t, c) : t \in TextsOf(n - 1), c \in {"a", "-"}}
      \* a-a-...-a with n dashes
      Dashed(n) == [i \in 1..(2 * n + 1) |-> IF i % 2 = 1 THEN "a" ELSE "-"]
  IN
  CASE e = "S1" ->
         MkEngine([DefaultAff EXCEPT !.SFX = <<SfxS>>],
                  <<MkWord(<<"h", "e", "l", "l", "o">>, {"A"})>>,
                  {<<"h", "e", "l", "l", "o">>, <<"h", "e", "l", "l", "o", "s">>, <<"h", "e", "l", "l", "o", "x">>, <<"H", "e", "l", "l", "o">>, <<"H", "E", "L", "L", "O", "S">>, <<"1", "2">>, <<"1", ".", "5">>, <<"1", "a">>},
                  {MkWord(<<"h", "e", "l", "l", "o", "x">>, {})})
    [] e = "S2" ->
         MkEngine([DefaultAff EXCEPT !.SFX = <<SfxS, SfxIng, SfxIes>>, !.PFX = <<PfxRe>>],
                  <<MkWord(<<"w", "a", "l", "k">>, {"A", "B", "G"}), MkWord(<<"p", "o", "n", "y">>, {"Y"})>>,
                  {<<"w", "a", "l", "k">>, <<"r", "e", "w", "a", "l", "k", "i", "n", "g">>, <<"w", "a", "l", "k", "i", "n", "g", "s">>, <<"r", "e", "w", "a", "l", "k", "s">>, <<"p", "o", "n", "i", "e", "s">>, <<"p", "o", "n", "y", "s">>},
                  {MkWord(<<"p", "o", "n", "y", "s">>, {})})
    [] e = "S2c" ->
         MkEngine([DefaultAff EXCEPT !.SFX = <<SfxIng>>, !.PFX = <<PfxRe, PfxUn>>,
                                     !.COMPLEXPREFIXES = TRUE],
                  <<MkWord(<<"d", "o">>, {"B", "G", "U"})>>,
                  {<<"r", "e", "d", "o">>, <<"u", "n", "r", "e", "d", "o">>, <<"u", "n", "d", "o", "i", "n", "g">>, <<"u", "n", "r", "e", "d", "o", "i", "n", "g">>, <<"r", "e", "u", "n", "d", "o">>},
                  {MkWord(<<"u", "n", "r", "e", "d", "o">>, {})})
    [] e = "S3" ->
         MkEngine([DefaultAff EXCEPT !.KEEPCASE = "K"],
                  <<MkWord(<<"i", "P", "h", "o", "n", "e">>, {"K"}), MkWord(<<"h", "e", "l", "l", "o">>, {})>>,
                  {<<"i", "p", "h", "o", "n", "e">>, <<"i", "P", "h", "o", "n", "e">>, <<"I", "P", "H", "O", "N", "E">>, <<"I", "p", "h", "o", "n", "e">>, <<"H", "E", "L", "L", "O">>, <<"H", "e", "l", "l", "o">>},
                  {MkWord(<<"h", "e", "l", "l", "o">>, {"K"}), MkWord(<<"i", "p", "h", "o", "n", "e">>, {})})
    [] e = "S4" ->
         MkEngine([DefaultAff EXCEPT !.COMPOUNDFLAG = "C", !.COMPOUNDFORBIDFLAG = "F"],
                  <<MkWord(<<"f", "o", "o">>, {"C"}), MkWord(<<"b", "a", "r">>, {"C"})>>,
                  {<<"f", "o", "o", "b", "a", "r">>, <<"f", "o">>, <<"f", "o", "o", "b", "a", "r", "f", "o", "o">>, <<"F", "o", "o", "b", "a", "r">>, <<"f", "o", "o">>},
                  {MkWord(<<"f", "o", "o", " ", "b", "a", "r">>, {}), MkWord(<<"f", "o", "o">>, {"C", "F"})})
    [] e = "S5" ->
         MkEngine([DefaultAff EXCEPT !.COMPOUNDRULE =
                     << <<[flag |-> "A", q |-> "1"], [flag |-> "B", q |-> "*"], [flag |-> "C", q |-> "1"]>> >>],
                  <<MkWord(<<"r", "e", "d">>, {"A"}), MkWord(<<"b", "l", "u", "e">>, {"B"}), MkWord(<<"g", "r", "e", "e", "n">>, {"C"})>>,
                  {<<"r", "e", "d", "g", "r", "e", "e", "n">>, <<"r", "e", "d", "b", "l", "u", "e", "g", "r", "e", "e", "n">>, <<"r", "e", "d", "r", "e", "d">>, <<"r", "e", "d">>, <<"b", "l", "u", "e", "g", "r", "e", "e", "n">>},
                  {MkWord(<<"r", "e", "d", " ", "g", "r", "e", "e", "n">>, {})})
    [] e = "forbid" ->
         MkEngine([DefaultAff EXCEPT !.FORBIDDENWORD = "X"],
                  <<MkWord(<<"f", "o", "o">>, {}), MkWord(<<"b", "a", "r">>, {}), MkWord(<<"f", "o", "o", "-", "b", "a", "r">>, {"X"}),
                    MkWord(<<"b", "a", "d">>, {"X"})>>,
                  {<<"f", "o", "o", "-", "b", "a", "r">>, <<"b", "a", "r", "-", "f", "o", "o">>, <<"b", "a", "d">>, <<"f", "o", "o">>, <<"-", "f", "o", "o">>, <<"f", "o", "o", "-">>, <<"f", "o", "o", "-", "b", "a", "z">>},
                  {MkWord(<<"b", "a", "d">>, {}), MkWord(<<"b", "a", "z">>, {})})
    [] e = "triple" ->
         MkEngine([DefaultAff EXCEPT !.COMPOUNDFLAG = "C", !.SIMPLIFIEDTRIPLE = TRUE],
                  <<MkWord(<<"b", "a", "l", "l">>, {"C"}), MkWord(<<"l", "o", "t">>, {"C"})>>,
                  {<<"b", "a", "l", "l", "o", "t">>, <<"b", "a", "l", "l", "l", "o", "t">>, <<"b", "a", "l", "l">>, <<"l", "o", "t", "b", "a", "l", "l">>},
                  {MkWord(<<"b", "a", "l", "l", " ", "l", "o", "t">>, {})})
    [] e = "warn" ->
         MkEngine([DefaultAff EXCEPT !.SFX = <<SfxS>>, !.WARN = "W", !.FORBIDWARN = TRUE],
                  <<MkWord(<<"h", "e", "l", "l", "o">>, {"A"}), MkWord(<<"o", "o", "p", "s">>, {"W"})>>,
                  {<<"h", "e", "l", "l", "o">>, <<"h", "e", "l", "l", "o", "s">>, <<"o", "o", "p", "s">>},
                  {MkWord(<<"h", "e", "l", "l", "o", "s">>, {"W"}), MkWord(<<"o", "o", "p", "s">>, {})})
    [] e = "conv" ->
         MkEngine([DefaultAff EXCEPT !.ICONV = <<MkRep(<<"x">>, <<"o", "o">>)>>, !.IGNORE = {"-"}],
                  <<MkWord(<<"f", "o", "o">>, {}), MkWord(<<"b", "a", "r">>, {})>>,
                  {<<"f", "o", "o">>, <<"f", "x">>, <<"f", "o", "o", "-", "b", "a", "r">>, <<"f", "-", "o", "o">>, <<"b", "a", "r">>},
                  {MkWord(<<"f", "o", "o", "b", "a", "r">>, {})})
    [] e = "ignore" ->
         MkEngine([DefaultAff EXCEPT !.ICONV = <<MkRep(<<"x">>, <<"o", "o">>)>>, !.IGNORE = {"-"},
                                     !.FORBIDDENWORD = "X", !.WARN = "W"],
                  <<MkWord(<<"f", "o", "o">>, {}), MkWord(<<"b", "a", "d">>, {"X"}), MkWord(<<"o", "d", "d">>, {"W"})>>,
                  {<<"b", "a", "d">>, <<"b", "-", "a", "d">>, <<"o", "d", "d">>, <<"o", "-", "d", "d">>, <<"f", "x">>, <<"f", "o", "o">>},
                  {})
    [] e = "order" ->
         MkEngine([DefaultAff EXCEPT !.FORBIDDENWORD = "X",
                                     !.SFX = <<SfxS, MkAffix("O", TRUE, <<>>, <<"o", "s">>, <<AnyChar>>, {}),
                                               MkAffix("R", TRUE, <<>>, <<"r", "s">>, <<AnyChar>>, {})>>],
                  <<MkWord(<<"f", "o", "o">>, {"A", "X"}), MkWord(<<"f", "o">>, {"O"}),
                    MkWord(<<"b", "a", "r">>, {"A"}), MkWord(<<"b", "a">>, {"R", "X"})>>,
                  {<<"f", "o", "o", "s">>, <<"b", "a", "r", "s">>, <<"f", "o", "s">>, <<"b", "a", "r">>},
                  {})
    [] e = "rule" ->
         MkEngine([DefaultAff EXCEPT !.COMPOUNDRULE =
                     << <<[flag |-> "A", q |-> "1"], [flag |-> "B", q |-> "*"], [flag |-> "C", q |-> "1"]>> >>],
                  <<MkWord(<<"r", "e", "d">>, {"A"}), MkWord(<<"a", "n", "d">>, {}), MkWord(<<"b", "l", "u", "e">>, {"B"}), MkWord(<<"g", "r", "e", "e", "n">>, {"C"})>>,
                  {<<"r", "e", "d", "a", "n", "d", "g", "r", "e", "e", "n">>, <<"r", "e", "d", "g", "r", "e", "e", "n">>, <<"r", "e", "d", "b", "l", "u", "e", "g", "r", "e", "e", "n">>, <<"a", "n", "d", "g", "r", "e", "e", "n">>},
                  {})
    [] e = "wordmax" ->
         MkEngine([DefaultAff EXCEPT !.COMPOUNDFLAG = "C", !.COMPOUNDMIN = 2, !.COMPOUNDWORDMAX = 2,
                                     !.COMPOUNDRULE = << <<[flag |-> "A", q |-> "*"]>> >>],
                  <<MkWord(<<"a", "b">>, {"C"}), MkWord(<<"x", "y">>, {"A"}), MkWord(<<"a">>, {"C"}), MkWord(<<"x">>, {"A"})>>,
                  {<<"a", "b", "a", "b">>, <<"a", "b", "a", "b", "a", "b">>, <<"a", "b", "a", "b", "a", "b", "a", "b">>,
                   <<"x", "y", "x", "y">>, <<"x", "y", "x", "y", "x", "y">>, <<"x", "y", "x", "y", "x", "y", "x", "y">>,
                   <<"a", "b", "a">>, <<"x", "y", "x">>, <<"a", "a", "b", "a", "b">>, <<"x", "x", "y">>},
                  {})
    [] e = "break" ->
         MkEngine(DefaultAff, <<>>, TextsOf(MaxTextLen) \cup {Dashed(8)}, {})
    [] e = "start" ->
         MkEngine([DefaultAff EXCEPT !.BREAK = <<MkPattern(<<>>, TRUE, FALSE)>>],
                  <<>>, TextsOf(MaxTextLen - 1), {})
    [] e = "ends" ->
         MkEngine([DefaultAff EXCEPT !.BREAK = <<MkPattern(<<>>, TRUE, FALSE), MkPattern(<<>>, FALSE, TRUE),
                                                 MkPattern(<<"-">>, FALSE, FALSE)>>],
                  <<>>, TextsOf(MaxTextLen - 1), {})
    [] e = "anywhere" ->
         MkEngine([DefaultAff EXCEPT !.BREAK = <<MkPattern(<<>>, FALSE, FALSE)>>],
                  <<>>, TextsOf(MaxTextLen - 2), {})
    [] e = "nobreak" ->
         MkEngine([DefaultAff EXCEPT !.BREAK = <<>>], <<>>, TextsOf(MaxTextLen - 2), {})
    [] e = "gate" ->
         MkEngine([DefaultAff EXCEPT !.COMPOUNDFLAG = "C", !.COMPOUNDBEGIN = "B", !.COMPOUNDMIDDLE = "M",
                                     !.COMPOUNDEND = "E",
                                     !.SFX = <<MkAffix("S", TRUE, <<>>, <<"s">>, <<AnyChar>>, {}),
                                               MkAffix("T", TRUE, <<>>, <<"t">>, <<AnyChar>>, {"E"})>>],
                  <<MkWord(<<"x">>, {"S", "T"}), MkWord(<<"x", "b">>, {"B", "S", "T"}),
                    MkWord(<<"x", "m">>, {"M", "S", "T"}), MkWord(<<"x", "e">>, {"E", "S", "T"}),
                    MkWord(<<"x", "c">>, {"C", "S", "T"}), MkWord(<<"x", "b", "m">>, {"B", "M", "S", "T"}),
                    MkWord(<<"x", "b", "e">>, {"B", "E", "S", "T"}), MkWord(<<"x", "b", "c">>, {"B", "C", "S", "T"}),
                    MkWord(<<"x", "m", "e">>, {"M", "E", "S", "T"}), MkWord(<<"x", "m", "c">>, {"M", "C", "S", "T"}),
                    MkWord(<<"x", "e", "c">>, {"E", "C", "S", "T"}), MkWord(<<"x", "b", "m", "e">>, {"B", "M", "E", "S", "T"}),
                    MkWord(<<"x", "b", "m", "c">>, {"B", "M", "C", "S", "T"}), MkWord(<<"x", "b", "e", "c">>, {"B", "E", "C", "S", "T"}),
                    MkWord(<<"x", "m", "e", "c">>, {"M", "E", "C", "S", "T"}), MkWord(<<"x", "b", "m", "e", "c">>, {"B", "M", "E", "C", "S", "T"})>>,
                  {<<"x">>, <<"x", "s">>, <<"x", "t">>, <<"x", "b">>, <<"x", "b", "s">>, <<"x", "b", "t">>,
                   <<"x", "m">>, <<"x", "m", "s">>, <<"x", "m", "t">>, <<"x", "e">>, <<"x", "e", "s">>, <<"x", "e", "t">>,
                   <<"x", "c">>, <<"x", "c", "s">>, <<"x", "c", "t">>, <<"x", "b", "m">>, <<"x", "b", "m", "s">>, <<"x", "b", "m", "t">>,
                   <<"x", "b", "e">>, <<"x", "b", "e", "s">>, <<"x", "b", "e", "t">>, <<"x", "b", "c">>, <<"x", "b", "c", "s">>, <<"x", "b", "c", "t">>,
                   <<"x", "m", "e">>, <<"x", "m", "e", "s">>, <<"x", "m", "e", "t">>, <<"x", "m", "c">>, <<"x", "m", "c", "s">>, <<"x", "m", "c", "t">>,
                   <<"x", "e", "c">>, <<"x", "e", "c", "s">>, <<"x", "e", "c", "t">>, <<"x", "b", "m", "e">>, <<"x", "b", "m", "e", "s">>, <<"x", "b", "m", "e", "t">>,
                   <<"x", "b", "m", "c">>, <<"x", "b", "m", "c", "s">>, <<"x", "b", "m", "c", "t">>, <<"x", "b", "e", "c">>, <<"x", "b", "e", "c", "s">>, <<"x", "b", "e", "c", "t">>,
                   <<"x", "m", "e", "c">>, <<"x", "m", "e", "c", "s">>, <<"x", "m", "e", "c", "t">>, <<"x", "b", "m", "e", "c">>, <<"x", "b", "m", "e", "c", "s">>, <<"x", "b", "m", "e", "c", "t">>},
                  {})
    [] e = "need" ->
         MkEngine([DefaultAff EXCEPT !.NEEDAFFIX = "N",
                                     !.SFX = <<MkAffix("A", TRUE, <<>>, <<"s">>, <<AnyChar>>, {}),
                                               MkAffix("Z", TRUE, <<>>, <<"x">>, <<AnyChar>>, {"N"}),
                                               MkAffix("I", TRUE, <<>>, <<"i">>, <<AnyChar>>, {"A", "Z"}),
                                               MkAffix("J", TRUE, <<>>, <<"j">>, <<AnyChar>>, {"N", "A", "Z"})>>,
                                     !.PFX = <<MkAffix("P", TRUE, <<>>, <<"u">>, <<AnyChar>>, {}),
                                               MkAffix("Q", TRUE, <<>>, <<"v">>, <<AnyChar>>, {"N"})>>],
                  <<MkWord(<<"f", "o", "o">>, {"N", "A", "Z", "I", "J", "P", "Q"}),
                    MkWord(<<"b", "a", "r">>, {"A", "Z", "I", "J", "P", "Q"}),
                    MkWord(<<"b", "a", "z">>, {"N"})>>,
                  {<<"f", "o", "o">>, <<"f", "o", "o", "s">>, <<"f", "o", "o", "x">>, <<"f", "o", "o", "i">>, <<"f", "o", "o", "j">>,
                   <<"f", "o", "o", "i", "s">>, <<"f", "o", "o", "i", "x">>, <<"f", "o", "o", "j", "s">>, <<"f", "o", "o", "j", "x">>, <<"u", "f", "o", "o">>,
                   <<"u", "f", "o", "o", "s">>, <<"u", "f", "o", "o", "x">>, <<"v", "f", "o", "o">>, <<"v", "f", "o", "o", "s">>, <<"v", "f", "o", "o", "x">>,
                   <<"b", "a", "r">>, <<"b", "a", "r", "s">>, <<"b", "a", "r", "x">>, <<"b", "a", "r", "i">>, <<"b", "a", "r", "j">>,
                   <<"b", "a", "r", "i", "s">>, <<"b", "a", "r", "i", "x">>, <<"b", "a", "r", "j", "s">>, <<"b", "a", "r", "j", "x">>, <<"u", "b", "a", "r">>,
                   <<"u", "b", "a", "r", "s">>, <<"u", "b", "a", "r", "x">>, <<"v", "b", "a", "r">>, <<"v", "b", "a", "r", "s">>, <<"v", "b", "a", "r", "x">>,
                   <<"b", "a", "z">>},
                  {})

\* The engines of the suggestion scenarios, and the words suggested for.
SuggestEngine(e) ==
  LET SfxS == MkAffix("A", TRUE, <<>>, <<"s">>, <<AnyChar>>, {})
      SfxIng == MkAffix("G", TRUE, <<>>, <<"i", "n", "g">>, <<AnyChar>>, {})
      letters == <<"a", "b", "c", "d", "e", "f", "g", "h", "i", "j", "k", "l", "m", "n", "o", "p", "q", "r", "s", "t", "u", "v">>
  IN
  CASE e = "rep" ->
         MkEngine([DefaultAff EXCEPT !.REP = <<MkRep(MkPattern(<<"a", "l", "o", "t">>, FALSE, FALSE), <<"a", " ", "l", "o", "t">>)>>,
                                     !.TRY = <<"l", "o">>],
                  <<MkWord(<<"a">>, {}), MkWord(<<"l", "o", "t">>, {}), MkWord(<<"s", "l", "o", "t">>, {})>>,
                  {<<"a", "l", "o", "t">>, <<"l", "o", "t", "t">>, <<"L", "o", "t", "t">>, <<"l", "t", "o">>, <<"a", "L", "o", "t">>}, {})
    [] e = "walk" ->
         MkEngine([DefaultAff EXCEPT !.SFX = <<SfxS, SfxIng>>, !.TRY = <<"k", "l">>],
                  <<MkWord(<<"w", "a", "l", "k">>, {"A", "G"}), MkWord(<<"w", "a", "l", "l">>, {"A"}), MkWord(<<"t", "a", "l", "k">>, {})>>,
                  {<<"w", "a", "k", "l">>, <<"W", "a", "l", "k", "k">>, <<"W", "A", "L", "L">>, <<"w", "o", "l", "k", "i", "n">>, <<"t", "a", "l", "l">>}, {})
    [] e = "dash" ->
         MkEngine([DefaultAff EXCEPT !.FORBIDDENWORD = "X", !.TRY = <<"o", "r", "d">>, !.MAXNGRAMSUGS = 0],
                  <<MkWord(<<"f", "o", "o">>, {}), MkWord(<<"b", "a", "r">>, {}), MkWord(<<"f", "o", "o", "-", "b", "a", "r">>, {"X"}),
                    MkWord(<<"b", "a", "d">>, {}), MkWord(<<"b", "a", "d">>, {"X"}), MkWord(<<"B", "a", "r">>, {"X"})>>,
                  {<<"f", "o", "x", "-", "b", "a", "r">>, <<"F", "o", "x", "-", "b", "a", "r">>, <<"f", "o", "x", "-", "b", "a", "z">>, <<"F", "o", "x", "-", "b", "o", "o">>, <<"b", "a", "x">>, <<"B", "a", "z">>, <<"f", "o">>}, {})
    [] e = "many" ->
         MkEngine([DefaultAff EXCEPT !.TRY = letters, !.MAXNGRAMSUGS = 0],
                  [i \in 1..Len(letters) |-> MkWord(<<letters[i]>>, {})],
                  {<<"z">>, <<"Z">>, <<"y">>}, {})
    [] e = "ucase" ->
         MkEngine([DefaultAff EXCEPT !.FORCEUCASE = "U", !.KEEPCASE = "K", !.TRY = <<"a">>,
                                     !.OCONV = <<MkRep(<<"q">>, <<"q", "u">>)>>],
                  <<MkWord(<<"F", "o", "o">>, {}), MkWord(<<"b", "a", "r">>, {}), MkWord(<<"i", "Q">>, {"K"}), MkWord(<<"q", "a">>, {})>>,
                  {<<"f", "o", "o">>, <<"b", "x", "r">>, <<"I", "K">>, <<"q", "a", "a">>, <<"b", "r">>}, {})
    [] e = "caps" ->
         MkEngine([DefaultAff EXCEPT !.FORBIDDENWORD = "X", !.TRY = <<"r">>, !.MAXNGRAMSUGS = 0],
                  <<MkWord(<<"b", "a", "r">>, {}), MkWord(<<"B", "A", "R">>, {"X"}), MkWord(<<"c", "a", "r">>, {})>>,
                  {<<"B", "A", "X">>, <<"C", "A", "X">>, <<"b", "a", "x">>}, {})
    [] e = "space" ->
         MkEngine([DefaultAff EXCEPT !.TRY = <<"s">>],
                  <<MkWord(<<"a", " ", "l", "o", "t">>, {}), MkWord(<<"a">>, {}), MkWord(<<"l", "o", "t">>, {}), MkWord(<<"a", "l", "t", "o">>, {}), MkWord(<<"s", "l", "o", "t">>, {})>>,
                  {<<"a", "l", "o", "t">>, <<"A", "l", "o", "t">>, <<"a", "l", "t">>}, {})
    [] e = "cpd" ->
         MkEngine([DefaultAff EXCEPT !.COMPOUNDFLAG = "C", !.COMPOUNDMIN = 1, !.MAXNGRAMSUGS = 0,
                                     !.MAP = << <<"b", "k">> >>, !.TRY = SubSeq(letters, 2, 11)],
                  <<MkWord(<<"A">>, {"C"})>> \o [i \in 1..11 |-> MkWord(<<letters[i]>>, {"C"})],
                  {<<"A", "b">>, <<"a", "b">>, <<"A", "c">>}, {})
    [] e = "force" ->
         MkEngine([DefaultAff EXCEPT !.FORCEUCASE = "U", !.WARN = "W", !.FORBIDWARN = TRUE, !.TRY = <<"e">>,
                                     !.OCONV = <<MkRep(<<"q">>, <<"q", "u">>)>>],
                  <<MkWord(<<"F", "o", "o">>, {}), MkWord(<<"A", "q">>, {}), MkWord(<<"B", "a", "r">>, {"W"}), MkWord(<<"f", "o", "e">>, {}), MkWord(<<"b", "a", "r", "e">>, {})>>,
                  {<<"f", "o", "o">>, <<"a", "q">>, <<"b", "a", "r">>, <<"f", "o", "x">>, <<"F", "o", "x">>}, {})
    [] e = "maxdiff" ->
         MkEngine([DefaultAff EXCEPT !.ONLYMAXDIFF = TRUE, !.TRY = <<"l", "o">>],
                  <<MkWord(<<"a">>, {}), MkWord(<<"l", "o", "t">>, {}), MkWord(<<"s", "l", "o", "t">>, {})>>,
                  {<<"l", "o", "t", "t">>, <<"l", "t", "o">>}, {})
    [] e = "good" ->
         MkEngine(DefaultAff,
                  <<MkWord(<<"N", "A", "S", "A">>, {}), MkWord(<<"n", "a", "s", "a", "l">>, {}), MkWord(<<"n", "a", "s">>, {})>>,
                  {<<"N", "a", "s", "a">>, <<"n", "a", "s", "a">>, <<"n", "a", "s", "l">>}, {})

SuggestEngines == {"rep", "walk", "dash", "many", "ucase", "caps", "space", "cpd", "force", "maxdiff", "good"}

\* ---------------------------------------------------- the lookup service

\* How many Words a caller adds to the word list of an engine.
MaxAdded == 2

\* The lookup service: the engine, its word list, the word last looked up
\* and what came back; for Lookup.stems, the stems if it was called. The
\* suggestion service: the generator each caller holds, and the handled
\* sets of the calls.
VARIABLES eng, dic, word, result, yielded, stemmed, pieces, verdicts, calls, handledOf

vars == <<eng, dic, word, result, yielded, stemmed, pieces, verdicts, calls, handledOf>>

\* Who may hold a generator.
Callers == {1, 2}

\* A caller that has not called yet.
Idle == [InitFrame(<<>>) EXCEPT !.stage = "idle"]

Engine(e) ==
  IF e \in SuggestEngines THEN SuggestEngine(e) ELSE LookupEngine(e)

\* The affix data of the engine in use; it never changes after construction.
EngAff == Engine(eng).aff

\* After construction: the engine's word list, and nothing looked up yet.
LookupInit ==
  /\ eng \in {"S1", "S2", "S2c", "S3", "S4", "S5", "forbid", "triple", "warn", "conv", "ignore", "order", "rule", "wordmax"}
  /\ dic = LookupEngine(eng).dic
  /\ word = <<>>
  /\ result = <<>>
  /\ yielded = <<>>
  /\ stemmed = <<>>
  /\ pieces = <<>>
  /\ verdicts = <<>>
  /\ calls = [q \in Callers |-> Idle]
  /\ handledOf = [q \in Callers |-> {}]

\* Lookup.check(w) that remembers the word it was asked about.
CheckLearning(w) ==
  /\ word' = w
  /\ result' = <<check(EngAff, dic, w, TRUE, TRUE)>>
  /\ yielded' = <<>>
  /\ stemmed' = <<>>
  /\ pieces' = <<>>
  /\ verdicts' = <<>>
  /\ dic' = IF MkWord(w, {}) \in Range(dic) THEN dic ELSE Append(dic, MkWord(w, {}))
  /\ UNCHANGED <<eng, calls, handledOf>>

\* Lookup.check(w)
Check(w) ==
  /\ word' = w
  /\ result' = <<check(EngAff, dic, w, TRUE, TRUE)>>
  /\ yielded' = <<>>
  /\ stemmed' = <<>>
  /\ pieces' = <<>>
  /\ verdicts' = <<>>
  /\ UNCHANGED <<eng, dic, calls, handledOf>>

\* Lookup.forms(w), drained.
Forms(w) ==
  /\ word' = w
  /\ yielded' = LookupForms(EngAff, dic, w, DefaultLKC)
  /\ result' = <<>>
  /\ stemmed' = <<>>
  /\ pieces' = <<>>
  /\ verdicts' = <<>>
  /\ UNCHANGED <<eng, dic, calls, handledOf>>

\* Lookup.stems(w), drained.
Stems(w) ==
  /\ word' = w
  /\ stemmed' = <<stems(EngAff, dic, w, DefaultLKC)>>
  /\ pieces' = <<>>
  /\ verdicts' = <<>>
  /\ result' = <<>>
  /\ yielded' = <<>>
  /\ UNCHANGED <<eng, dic, calls, handledOf>>

\* Dic.add(e): one more Word in the word list.
AddWord(e) ==
  /\ Len(dic) < Len(LookupEngine(eng).dic) + MaxAdded
  /\ e \notin Range(dic)
  /\ dic' = Append(dic, e)
  /\ word' = <<>>
  /\ result' = <<>>
  /\ yielded' = <<>>
  /\ stemmed' = <<>>
  /\ pieces' = <<>>
  /\ verdicts' = <<>>
  /\ UNCHANGED <<eng, calls, handledOf>>

LookupNext ==
  \/ \E w \in LookupEngine(eng).inputs : Check(w)
  \/ \E w \in LookupEngine(eng).inputs : Forms(w)
  \/ \E w \in LookupEngine(eng).inputs : Stems(w)
  \/ \E e \in LookupEngine(eng).extra : AddWord(e)

LookupSpec == LookupInit /\ [][LookupNext]_vars

\* ----------------------------------------------------- splitting at BREAK

\* The engines of the BREAK scenarios: the default patterns (^-, -$, -), the
\* pattern ^ that matches the empty string at the start, ^ and $ with -, the
\* empty pattern that matches everywhere, and no pattern.
BreakInit ==
  /\ eng \in {"break", "start", "ends", "anywhere", "nobreak"}
  /\ dic = Engine(eng).dic
  /\ word = <<>>
  /\ result = <<>>
  /\ yielded = <<>>
  /\ stemmed = <<>>
  /\ pieces = <<>>
  /\ verdicts = <<>>
  /\ calls = [q \in Callers |-> Idle]
  /\ handledOf = [q \in Callers |-> {}]

\* breakWord(aff, w), drained; one call in a behaviour.
BreakWord(w) ==
  /\ pieces = <<>>
  /\ word' = w
  /\ pieces' = breakWord(EngAff, w, 0)
  /\ UNCHANGED <<eng, dic, result, yielded, stemmed, verdicts, calls, handledOf>>

BreakNext == \E w \in Engine(eng).inputs : BreakWord(w)

BreakSpec == BreakInit /\ [][BreakNext]_vars

\* ------------------------------------------------------ validating forms

ValidInit ==
  /\ eng \in {"gate", "need"}
  /\ dic = Engine(eng).dic
  /\ word = <<>>
  /\ result = <<>>
  /\ yielded = <<>>
  /\ stemmed = <<>>
  /\ pieces = <<>>
  /\ verdicts = <<>>
  /\ calls = [q \in Callers |-> Idle]
  /\ handledOf = [q \in Callers |-> {}]

\* Every hypothesis decompose yields for the text w at the compound position
\* pos, bound to each homonym of its stem, is put to the two validators:
\* validForm(form, word) and form.valid(word).
Validate(w, pos) ==
  LET lk == MkLKWord(w, guess(w), pos)
      bound(form) ==
        LET hs == homonyms(dic, form.stem, FALSE)
        IN [i \in 1..Len(hs) |-> [form EXCEPT !.inDictionary = <<hs[i]>>]]
      verdict(candidate) ==
        [form |-> candidate, pos |-> pos,
         validForm |-> validForm(EngAff, candidate, lk, TRUE),
         valid |-> valid(EngAff, candidate, lk, TRUE)]
      hypotheses == FlatMap(decompose(EngAff, lk, NoLKFlags), bound)
  IN /\ word' = w
     /\ verdicts' = [i \in 1..Len(hypotheses) |-> verdict(hypotheses[i])]
     /\ UNCHANGED <<eng, dic, result, yielded, stemmed, pieces, calls, handledOf>>

ValidNext ==
  \E w \in Engine(eng).inputs :
    \E pos \in {PosNone, CompoundPos.BEGIN, CompoundPos.MIDDLE, CompoundPos.END} : Validate(w, pos)

ValidSpec == ValidInit /\ [][ValidNext]_vars

\* ----------------------------------------------- the suggestion service

\* One handled set for every call.
HandledShared(q) == 1

\* The handled set a call works on: the Set made by that call.
HandledKey(q) == q

SuggestInit ==
  /\ eng \in SuggestEngines
  /\ dic = Engine(eng).dic
  /\ word = <<>>
  /\ result = <<>>
  /\ yielded = <<>>
  /\ stemmed = <<>>
  /\ pieces = <<>>
  /\ verdicts = <<>>
  /\ calls = [q \in Callers |-> Idle]
  /\ handledOf = [q \in Callers |-> {}]

\* Caller q calls Suggest.suggestions(w): a generator with a new handled set.
Suggestions(q, w) ==
  /\ calls[q].stage = "idle"
  /\ calls' = [calls EXCEPT ![q] = InitFrame(w)]
  /\ handledOf' = [handledOf EXCEPT ![HandledKey(q)] = {}]
  /\ UNCHANGED <<eng, dic, word, result, yielded, stemmed, pieces, verdicts>>

\* Caller q asks its generator for the next Suggestion.
NextSuggestion(q) ==
  LET resumed(g) ==
        /\ calls' = [calls EXCEPT ![q] =
                      [g EXCEPT !.handled = {},
                                !.trail = IF Len(g.out) > Len(calls[q].out)
                                          THEN Append(@, [stage |-> g.stage, idx |-> g.idx])
                                          ELSE @]]
        /\ handledOf' = [handledOf EXCEPT ![HandledKey(q)] = g.handled]
  IN /\ calls[q].stage \notin {"idle", "done", "forms"}
     /\ resumed(Pull(EngAff, dic, [calls[q] EXCEPT !.handled = handledOf[HandledKey(q)]]))
     /\ UNCHANGED <<eng, dic, word, result, yielded, stemmed, pieces, verdicts>>

\* Caller q calls Lookup.forms(w): a generator of forms.
FormsCall(q, w) ==
  /\ calls[q].stage = "idle"
  /\ calls' = [calls EXCEPT ![q] = [InitFrame(w) EXCEPT !.query = "forms", !.stage = "forms"]]
  /\ UNCHANGED <<eng, dic, word, result, yielded, stemmed, pieces, verdicts, handledOf>>

\* Caller q asks its generator of forms for the next form.
NextForm(q) ==
  LET next(f, all) ==
        IF f.cur >= Len(all) THEN [f EXCEPT !.stage = "done"]
        ELSE [f EXCEPT !.cur = @ + 1, !.out = Append(@, all[f.cur + 1])]
  IN /\ calls[q].stage = "forms"
     /\ calls' = [calls EXCEPT ![q] = next(calls[q], LookupForms(EngAff, dic, calls[q].word, DefaultLKC))]
     /\ UNCHANGED <<eng, dic, word, result, yielded, stemmed, pieces, verdicts, handledOf>>

\* One caller.
SuggestNext ==
  \/ \E w \in Engine(eng).inputs : Suggestions(1, w)
  \/ NextSuggestion(1)

SuggestSpec == SuggestInit /\ [][SuggestNext]_vars

\* The words the two callers ask about.
ParallelInputs ==
  Engine(eng).inputs \cap {<<"a", "l", "o", "t">>, <<"l", "o", "t", "t">>,
                           <<"f", "o", "x", "-", "b", "a", "r">>, <<"b", "a", "x">>}

\* The engines queried by two callers at once.
ParallelInit == SuggestInit /\ eng \in {"rep", "dash"}

\* Two callers, their calls interleaved in any order.
ParallelNext ==
  \E q \in Callers :
    \/ \E w \in ParallelInputs : Suggestions(q, w)
    \/ NextSuggestion(q)
    \/ \E w \in ParallelInputs : FormsCall(q, w)
    \/ NextForm(q)

ParallelSpec == ParallelInit /\ [][ParallelNext]_vars

\* ----------------------------------------------- finishing a builder

\* The engines that build n-gram suggestions (MAXNGRAMSUGS is not 0).
NgramInit == SuggestInit /\ eng \in {"rep", "walk", "ucase", "space", "force", "maxdiff"}

\* this.ngramBuilder(w, handled), stepped over the n-gram words, and its
\* finish() drained: the handled set and what was yielded. One builder in
\* a behaviour.
Finish(w, handled) ==
  /\ result = <<>>
  /\ word' = w
  /\ result' = <<[known |-> {lowercase(h) : h \in handled},
                  finish |-> NgramFinish(EngAff, dic, w, handled)]>>
  /\ UNCHANGED <<eng, dic, yielded, stemmed, pieces, verdicts, calls, handledOf>>

\* The handled set holds at most two suggestions, words of the list.
NgramNext ==
  \E w \in Engine(eng).inputs :
    \E handled \in {s \in SUBSET {dic[i].stem : i \in 1..Len(dic)} : Cardinality(s) <= 2} :
      Finish(w, handled)

NgramSpec == NgramInit /\ [][NgramNext]_vars

\* ------------------------------------------------- indexing an LKWord

\* The texts indexed are those of the BREAK scenario.
AtInit == BreakInit /\ eng = "break"

\* new LKWord(aff, w).at(n) in both LKWord classes; the answers are kept
\* beside n, that of lk-word.ts:489 as "at" and that of lk-word.ts:96 as
\* "atMinus".  One call in a behaviour.
At(w, n) ==
  /\ result = <<>>
  /\ word' = w
  /\ result' = LET lk == MkLKWord(w, guess(w), PosNone)
               IN <<[n |-> n, at |-> LKAt(lk, n), atMinus |-> LKAtMinus(lk, n)]>>
  /\ UNCHANGED <<eng, dic, yielded, stemmed, pieces, verdicts, calls, handledOf>>

AtNext ==
  \E w \in Engine(eng).inputs : \E n \in (0 - MaxTextLen)..MaxTextLen : At(w, n)

AtSpec == AtInit /\ [][AtNext]_vars

\* ------------------------------------------- properties of the lookup

\* The verdict of the acceptance pipeline on a word, the forbidden check
\* left aside: a number, or a split whose pieces are all accepted.
Licensed(aff, d, w) ==
  \/ IsNumber(Preprocess(aff, w))
  \/ GoodBreaks(aff, d, Preprocess(aff, w), TRUE, TRUE) # <<>>

LastAdded(d) == d[Len(d)]

\* A word accepted without compounding: not forbidden, and a number or a
\* split whose pieces all have an affix form.
AcceptedByAffixes(aff, d, w) ==
  /\ ~isForbidden(aff, d, w)
  /\ \/ IsNumber(Preprocess(aff, w))
     \/ \E split \in Range(breakWord(aff, Preprocess(aff, w), 0)) :
          \A i \in 1..Len(split) :
            LookupCorrect(aff, d, split[i], MkLKC(TRUE, TRUE, TRUE, FALSE))

\* A Word that forbids nothing: no FORBIDDENWORD flag and, under FORBIDWARN,
\* no WARN flag.
Harmless(aff, e) ==
  /\ ~includes(aff.FORBIDDENWORD, e.flags)
  /\ ~(aff.FORBIDWARN /\ includes(aff.WARN, e.flags))

\* C6 (as amended): adding a Word that carries no FORBIDDENWORD flag (and,
\* under FORBIDWARN, no WARN flag) never turns incorrect a word that was
\* accepted without compounding; a word accepted only as a compound may
\* become incorrect.
C6_MonotoneForAffixForms ==
  [][dic' # dic /\ Harmless(EngAff, LastAdded(dic'))
       => \A w \in LookupEngine(eng).inputs :
            AcceptedByAffixes(EngAff, dic, w) => check(EngAff, dic', w, TRUE, TRUE).correct]_vars

\* A harmless Word has been added and a word accepted without compounding
\* before the addition has been checked after it.
C6_Witness ==
  /\ Len(dic) > Len(LookupEngine(eng).dic)
  /\ Harmless(EngAff, LastAdded(dic))
  /\ result # <<>>
  /\ AcceptedByAffixes(EngAff, SubSeq(dic, 1, Len(dic) - 1), word)

\* C6 (as stated): adding a Word without FORBIDDENWORD never turns a correct
\* word incorrect, compounds included.
C6_Monotone ==
  [][dic' # dic /\ ~includes(EngAff.FORBIDDENWORD, LastAdded(dic').flags)
       => \A w \in LookupEngine(eng).inputs :
            check(EngAff, dic, w, TRUE, TRUE).correct
              => check(EngAff, dic', w, TRUE, TRUE).correct]_vars

PartsText(parts) == Flatten([i \in 1..Len(parts) |-> parts[i].text])

\* The compound forms Lookup.forms derives from one variant of the word.
CompoundsOfVariant(variant) ==
  compoundForms(EngAff, dic, MkLKWord(variant, guess(word), PosNone), TRUE)

\* C8: for every CompoundForm yielded by compoundForms, by flags (the
\* SIMPLIFIEDTRIPLE retry included) or by rules, the texts of the parts
\* concatenated in order are the surface of the word that was segmented.
C8_CompoundIntegrity ==
  yielded # <<>> =>
    /\ \A v \in Range(variants(word)) :
         \A c \in Range(CompoundsOfVariant(v)) : PartsText(c) = v
    /\ \A f \in Range(yielded) : f.compound => PartsText(f.parts) \in Range(variants(word))

\* Lookup.forms has yielded a compound whose first part was found by the
\* SIMPLIFIEDTRIPLE retry: its stem is one character longer than its text.
C8_Witness ==
  /\ EngAff.SIMPLIFIEDTRIPLE
  /\ \E f \in Range(yielded) :
       /\ f.compound
       /\ Len(f.parts) = 2
       /\ ~hasAffixes(f.parts[1])
       /\ Len(f.parts[1].stem) = Len(f.parts[1].text) + 1

\* The surface made by putting a form's affixes back on its stem: the
\* suffix found nearest the stem first, then the outer one, then the prefixes.
Reapply(form) ==
  LET s1 == IF form.suffix # <<>> THEN SuffixAttach(form.suffix[1], form.stem) ELSE form.stem
      s2 == IF form.suffix2 # <<>> THEN SuffixAttach(form.suffix2[1], s1) ELSE s1
      p1 == IF form.prefix # <<>> THEN PrefixAttach(form.prefix[1], s2) ELSE s2
  IN IF form.prefix2 # <<>> THEN PrefixAttach(form.prefix2[1], p1) ELSE p1

\* C9: for every AffixForm the form validator accepts, standalone or as a
\* part of a compound, putting its prefixes and suffixes back on its stem
\* yields its text.
C9_RoundTrip ==
  \A f \in Range(yielded) : \A i \in 1..Len(f.parts) : Reapply(f.parts[i]) = f.parts[i].text

\* ------------------------------------------ properties of the suggester

\* The calls of Suggest.suggestions that have started.
SuggestionCalls == {q \in Callers : calls[q].stage # "idle" /\ calls[q].query = "suggestions"}

\* The suggestions of a kind other than DASHES among those yielded.
NotDashes(out) == Filter(out, LAMBDA s : s.kind # "DASHES")

\* The oracle of check on a text, asked in each way the engine asks it:
\* Lookup.check, and Suggest.correct over affix forms and compound forms.
Accepted(text) ==
  \/ check(EngAff, dic, text, TRUE, TRUE).correct
  \/ SuggestCorrect(EngAff, dic, text, FALSE)
  \/ SuggestCorrect(EngAff, dic, text, TRUE)

\* C1 (as stated, for the DASHES suggestions): every DASHES suggestion
\* yielded by Suggest.suggestions has a text that the acceptance oracle of
\* check accepts.
C1_DashesAccepted ==
  \A q \in SuggestionCalls :
    \A i \in 1..Len(calls[q].out) :
      calls[q].out[i].kind = "DASHES" => Accepted(calls[q].out[i].text)

\* C3 (as stated): no suggestion yielded by Suggest.suggestions has a text
\* of which some homonym in the word list carries the FORBIDDENWORD flag.
C3_NoForbiddenHomonym ==
  \A q \in SuggestionCalls :
    \A i \in 1..Len(calls[q].out) :
      ~\E k \in 1..Len(dic) :
         /\ dic[k].stem = calls[q].out[i].text
         /\ includes(EngAff.FORBIDDENWORD, dic[k].flags)

\* The limits of the stages together: MAX_SUGGESTIONS edits, MAXCPDSUGS
\* compound edits, MAXNGRAMSUGS n-gram suggestions and
\* MAX_PHONET_SUGGESTIONS phonetic ones.
Limits(aff) ==
  MAX_SUGGESTIONS + aff.MAXCPDSUGS + aff.MAXNGRAMSUGS + MAX_PHONET_SUGGESTIONS

\* C4 (as stated): one call yields, the suggestions of the dashes branch
\* aside, at most MAX_SUGGESTIONS + MAXCPDSUGS + MAXNGRAMSUGS +
\* MAX_PHONET_SUGGESTIONS suggestions, however many casing variants the
\* word has.
C4_Bounded ==
  \A q \in SuggestionCalls : Len(NotDashes(calls[q].out)) <= Limits(EngAff)

\* C5 (as stated): no two suggestions yielded by one call of
\* Suggest.suggestions have the same text.
C5_Deduplicated ==
  \A q \in SuggestionCalls :
    \A i, j \in 1..Len(calls[q].out) :
      i # j => calls[q].out[i].text # calls[q].out[j].text

\* ------------------------------------------ properties of parallel queries

\* What the query of a caller yields when it runs alone on the engine.
Alone(f) ==
  IF f.query = "forms" THEN LookupForms(EngAff, dic, f.word, DefaultLKC)
  ELSE suggestions(EngAff, dic, f.word)

IsPrefix(s, t) == Len(s) <= Len(t) /\ \A i \in 1..Len(s) : s[i] = t[i]

C12_CorrectHasStem ==
  (stemmed # <<>> /\ check(EngAff, dic, word, TRUE, TRUE).correct) => stemmed[1] # <<>>

\* C13 (as stated): two words that ICONV and the removal of the IGNORE
\* characters turn into the same string get the same result of
\* Lookup.check, in all of correct, forbidden and warn.
C13_SameAfterConversion ==
  \A i \in 1..Len(result) :
    \A w \in LookupEngine(eng).inputs :
      Preprocess(EngAff, w) = Preprocess(EngAff, word)
        => check(EngAff, dic, w, TRUE, TRUE) = result[i]

\* The KEEPCASE entries of the word list that spell the word in another
\* capitalization type: positions k with KEEPCASE in dic[k].flags, the same
\* letters as w when case is ignored, and WordCapType(dic[k]) # guess(w).
OtherCase(aff, d, w) ==
  {k \in 1..Len(d) : /\ includes(aff.KEEPCASE, d[k].flags)
                     /\ ~aff.CHECKSHARPS
                     /\ lowercase(d[k].stem) = lowercase(w)
                     /\ WordCapType(d[k]) # guess(w)}

\* The word list without the entries at the positions ks.
Without(d, ks) ==
  LET keep == {k \in 1..Len(d) : k \notin ks}
      RECURSIVE pick(_)
      pick(k) == IF k > Len(d) THEN <<>>
                 ELSE IF k \in keep THEN <<d[k]>> \o pick(k + 1) ELSE pick(k + 1)
  IN pick(1)

\* C14: with CHECKSHARPS off, every form yielded by Lookup.forms whose root (or
\* whose part's root) carries KEEPCASE has the capitalization type of the
\* looked-up word; and when check accepts a word that is a differently-cased
\* spelling of KEEPCASE entries, it accepts the word without those entries
\* as well, that is, another entry licenses it.
C14_KeepCase ==
  /\ \A i \in 1..Len(yielded) :
       \A j \in 1..Len(yielded[i].parts) :
         LET part == yielded[i].parts[j]
         IN (/\ part.inDictionary # <<>>
             /\ includes(EngAff.KEEPCASE, part.inDictionary[1].flags)
             /\ ~EngAff.CHECKSHARPS)
              => guess(word) = WordCapType(part.inDictionary[1])
  /\ \A i \in 1..Len(result) :
       (result[i].correct /\ OtherCase(EngAff, dic, word) # {})
         => check(EngAff, Without(dic, OtherCase(EngAff, dic, word)), word, TRUE, TRUE).correct

\* A differently-cased spelling of a KEEPCASE entry was checked and found
\* incorrect.
C14_Witness ==
  /\ result # <<>>
  /\ ~result[1].correct
  /\ OtherCase(EngAff, dic, word) # {}

\* A differently-cased spelling of a KEEPCASE entry was checked and found
\* correct, licensed by another entry.
C14_WitnessLicensed ==
  /\ result # <<>>
  /\ result[1].correct
  /\ OtherCase(EngAff, dic, word) # {}

\* ------------------------------------------ properties of the suggester, II

\* C15 (as stated): every suggestion yielded for a word of capitalization
\* type ALL is itself all uppercase, unless a homonym of its text in the
\* word list carries KEEPCASE.
C15_UpperForUpper ==
  \A q \in SuggestionCalls :
    guess(calls[q].word) = CapType.ALL =>
      \A i \in 1..Len(calls[q].out) :
        \/ calls[q].out[i].text = uppercase(calls[q].out[i].text)
        \/ hasFlag(dic, calls[q].out[i].text, EngAff.KEEPCASE, FALSE)

\* ------------------------------------------ properties of splitting at BREAK

\* How many times a pattern of the engine matches in the text.
BreakPoints(aff, text) ==
  LET RECURSIVE sum(_)
      sum(k) == IF k > Len(aff.BREAK) THEN 0
                ELSE Len(MatchAll(text, aff.BREAK[k])) + sum(k + 1)
  IN sum(1)

\* 1 + b + b^2 + ... + b^depth: how many calls a recursion that stops at the
\* depth makes when each call makes at most b calls.
RECURSIVE CallsWithin(_, _)
CallsWithin(b, depth) == IF depth = 0 THEN 1 ELSE 1 + b * CallsWithin(b, depth - 1)

\* C16: breakWord ends for every text and every set of BREAK patterns, also
\* those that match at either end of the text or match the empty string, and
\* yields a list of splits; the recursion stops at depth 10, so that there
\* are no more splits than calls down to depth 10 (each call yields one
\* split of its own) and no split has more than 11 pieces; where the cap
\* cuts a branch nothing is raised: the splits found above the cap are
\* yielded, the whole text first, all pieces non-empty parts of the text.
C16_BreakCapped ==
  pieces # <<>> =>
    /\ pieces[1] = NonEmpty(<<word>>)
    /\ Len(pieces) <= CallsWithin(BreakPoints(EngAff, word), 10)
    /\ \A i \in 1..Len(pieces) :
         /\ Len(pieces[i]) <= 10 + 1
         /\ \A j \in 1..Len(pieces[i]) : pieces[i][j] # <<>> /\ Includes(word, pieces[i][j])

\* A text has been split by a pattern that matches the empty string at its
\* start, so that every call recurs on the same text: the cap has ended the
\* recursion, and the 11 splits of the depths 0 to 10 have been yielded.
C16_Witness ==
  /\ eng = "start"
  /\ word # <<>>
  /\ Len(pieces) = 10 + 1

\* A text has been split in many ways, in up to nine pieces.
C16_WitnessPieces ==
  /\ Len(word) = 17
  /\ \E i \in 1..Len(pieces) : Len(pieces[i]) = 9

\* --------------------------------------------- properties of the validators

\* The word as the validators saw it when the verdict v was given.
Validated(v) == MkLKWord(word, guess(word), v.pos)

\* The flag of a compound position.
PositionFlag(aff, pos) ==
  CASE pos = CompoundPos.BEGIN -> aff.COMPOUNDBEGIN
    [] pos = CompoundPos.MIDDLE -> aff.COMPOUNDMIDDLE
    [] pos = CompoundPos.END -> aff.COMPOUNDEND

\* The verdict a validator gave on a form at a compound position agrees with
\* the gate: the form has no COMPOUNDFLAG and passes every test that does not
\* look at the position, and then it is accepted exactly when it carries the
\* flag of the position.
GateAgrees(v, accepted) ==
  (/\ v.pos # PosNone
   /\ ~includes(EngAff.COMPOUNDFLAG, FormFlags(v.form))
   /\ validForm(EngAff, v.form, LKShift(Validated(v), PosNone), TRUE))
    => (accepted <=> includes(PositionFlag(EngAff, v.pos), FormFlags(v.form)))

\* C17 (as stated): a form without COMPOUNDFLAG that is validated at the
\* position BEGIN, MIDDLE or END is accepted if and only if it carries
\* COMPOUNDBEGIN, COMPOUNDMIDDLE or COMPOUNDEND respectively, by the function
\* validForm and by the method AffixForm.valid alike.
C17_PositionGate ==
  \A i \in 1..Len(verdicts) :
    /\ GateAgrees(verdicts[i], verdicts[i].validForm)
    /\ GateAgrees(verdicts[i], verdicts[i].valid)

\* What the NEEDAFFIX test is to reject: a form without affixes whose root
\* carries NEEDAFFIX, a form with affixes all of which carry it.
NeedsAffix(aff, form) ==
  LET affixes == form.prefix2 \o form.prefix \o form.suffix \o form.suffix2
  IN IF hasAffixes(form)
     THEN \A i \in 1..Len(affixes) : aff.NEEDAFFIX \in affixes[i].flags
     ELSE aff.NEEDAFFIX \in form.inDictionary[1].flags

\* The engine's affix data with NEEDAFFIX not configured.
NoNeedAffix == [EngAff EXCEPT !.NEEDAFFIX = NoFlag]

\* C18 (as stated): with NEEDAFFIX configured, a form that a validator
\* accepts when NEEDAFFIX is left out is rejected by it if and only if it
\* has no affixes and its root carries NEEDAFFIX, or it has affixes and
\* every one of them, outer and inner, carries NEEDAFFIX; by the function
\* validForm and by the method AffixForm.valid alike.
C18_NeedAffix ==
  EngAff.NEEDAFFIX # NoFlag =>
    \A i \in 1..Len(verdicts) :
      LET v == verdicts[i] IN
      /\ validForm(NoNeedAffix, v.form, Validated(v), TRUE)
           => (v.validForm <=> ~NeedsAffix(EngAff, v.form))
      /\ valid(NoNeedAffix, v.form, Validated(v), TRUE)
           => (v.valid <=> ~NeedsAffix(EngAff, v.form))

\* ------------------------------------- properties of the affix forms

\* What affixForms yields for one hypothesis when nothing was enumerated
\* before it.
OnItsOwn(aff, d, lk, form) == AffixFormsFrom(aff, d, lk, <<form>>, 1, TRUE, FALSE)

\* C19 (as stated): what affixForms yields for a hypothesis of decompose
\* does not depend on the hypotheses enumerated before it: after
\* Lookup.forms(word), every form that a hypothesis of a casing variant
\* yields on its own is among the forms yielded.
C19_Independent ==
  (word # <<>> /\ result = <<>> /\ stemmed = <<>>) =>
    \A v \in Range(variants(word)) :
      LET lk == MkLKWord(v, guess(word), PosNone)
          hypotheses == decompose(EngAff, lk, NoLKFlags)
      IN \A i \in 1..Len(hypotheses) :
           \A f \in Range(OnItsOwn(EngAff, dic, lk, hypotheses[i])) :
             \E y \in Range(yielded) : ~y.compound /\ y.parts = <<f>>

\* ------------------------------------ properties of compounding by rule

\* Some choice of one dictionary homonym per part, in order, whose flag
\* sets, one per part, match one of the rules in full.
FullyMatched(aff, d, parts) ==
  \E hs \in [1..Len(parts) -> Range(d)] :
    /\ \A i \in 1..Len(parts) : hs[i].stem = parts[i].text
    /\ \E r \in 1..Len(aff.COMPOUNDRULE) :
         RuleMatch(aff.COMPOUNDRULE[r], [i \in 1..Len(parts) |-> hs[i].flags], FALSE)

\* C20 (as stated): where compounds are made by COMPOUNDRULE only, every
\* compound form that Lookup.forms(word) yields has, part by part, a
\* dictionary homonym such that the sequence of exactly one flag set per
\* part matches a rule in full; a part without flags is not skipped.
C20_FullMatch ==
  (/\ word # <<>> /\ result = <<>> /\ stemmed = <<>>
   /\ EngAff.COMPOUNDFLAG = NoFlag /\ EngAff.COMPOUNDBEGIN = NoFlag) =>
    \A y \in Range(yielded) : y.compound => FullyMatched(EngAff, dic, y.parts)
\* ----------------------------- properties of the suggester, III: the passes

\* C21: once a call of Suggest.suggestions has yielded a Suggestion of kind
\* SPACEWORD it yields nothing further: the SPACEWORD is the last Suggestion
\* of the call, and the generator has returned.
C21_SpaceWordEnds ==
  \A q \in SuggestionCalls :
    \A i \in 1..Len(calls[q].out) :
      calls[q].out[i].kind = "SPACEWORD" => i = Len(calls[q].out) /\ calls[q].stage = "done"

\* A call that yielded a SPACEWORD for a word with further correct edits
\* (alto by a swap, slot by an insertion).
C21_Witness ==
  /\ eng = "space"
  /\ \E q \in SuggestionCalls :
       /\ calls[q].word = <<"a", "l", "o", "t">>
       /\ calls[q].out # <<>>
       /\ calls[q].out[Len(calls[q].out)] = MkSuggestion(<<"a", " ", "l", "o", "t">>, "SPACEWORD")
       /\ SuggestCorrect(EngAff, dic, <<"a", "l", "t", "o">>, FALSE)
\* The pass of Suggest.suggestions that yielded the i-th Suggestion of a
\* call: the FORCEUCASE short-circuit, the CASE suggestion of a variant, the
\* edits of the variant, the compound edits, the dashes or the n-grams.
PassOf(f, i) ==
  IF f.out[i].kind = "FORCEUCASE" THEN "start"
  ELSE IF f.out[i].kind = "CASE" THEN "case"
  ELSE IF f.trail[i].stage = "done" THEN "edits"
  ELSE f.trail[i].stage

\* The variant idx of a call had an UPPERCASE, REPLCHARS or MAPCHARS among
\* the edits yielded for it.
Suppressed(f, idx) ==
  \E i \in 1..Len(f.trail) :
    /\ f.trail[i].idx = idx
    /\ PassOf(f, i) = "edits"
    /\ f.out[i].kind \in {"UPPERCASE", "REPLCHARS", "MAPCHARS"}

\* C22: for each casing variant, once the edits of the variant have yielded
\* an UPPERCASE, REPLCHARS or MAPCHARS no compound edit is yielded for that
\* variant; the suppression lasts for that variant only: while the
\* generator is in the loop of a variant, noCompound is set exactly when
\* one of those kinds was yielded among the edits of that same variant.
C22_CompoundSuppressed ==
  \A q \in SuggestionCalls :
    /\ Len(calls[q].trail) = Len(calls[q].out)
    /\ \A j \in 1..Len(calls[q].trail) :
         PassOf(calls[q], j) = "cpd" => ~Suppressed(calls[q], calls[q].trail[j].idx)
    /\ calls[q].stage \in {"edits", "cpd", "dashes", "ngram"} =>
         (calls[q].noCompound <=> Suppressed(calls[q], calls[q].idx))

\* A word whose first variant had its compound pass suppressed by a
\* MAPCHARS and whose second variant, with none, got compound edits.
C22_Witness ==
  \E q \in SuggestionCalls :
    /\ Suppressed(calls[q], 0)
    /\ ~Suppressed(calls[q], 1)
    /\ \E j \in 1..Len(calls[q].trail) : PassOf(calls[q], j) = "cpd" /\ calls[q].trail[j].idx = 1
\* The call of Suggest.suggestions that meets the FORCEUCASE short-circuit:
\* FORCEUCASE is set, the word is all lowercase and its capitalized variant
\* is correct.
ShortCircuited(f) ==
  /\ EngAff.FORCEUCASE # NoFlag
  /\ f.word # <<>>
  /\ guess(f.word) = CapType.NO
  /\ SuggestCorrect(EngAff, dic, capitalize(f.word)[1], FALSE)

\* C23 (as stated): in a short-circuited call the capitalized variant is the
\* only Suggestion, of kind FORCEUCASE, and no other stage runs.
C23_ForceUcase ==
  \A q \in SuggestionCalls :
    ShortCircuited(calls[q]) =>
      /\ calls[q].stage \in {"start", "done"}
      /\ calls[q].stage = "done" =>
           calls[q].out = <<MkSuggestion(capitalize(calls[q].word)[1], "FORCEUCASE")>>

\* What a short-circuited call does yield: no other stage runs, and the
\* Suggestion is what the handler makes of the capitalized variant, which is
\* the variant after OCONV, or nothing when the handler turns it down.
ShortCircuitHandled ==
  \A q \in SuggestionCalls :
    ShortCircuited(calls[q]) =>
      /\ calls[q].stage \in {"start", "done"}
      /\ calls[q].stage = "start" => calls[q].out = <<>>
      /\ calls[q].stage = "done" =>
           LET h == handle(EngAff, dic, calls[q].word, CapType.NO, {},
                           capitalize(calls[q].word)[1], FALSE)
           IN calls[q].out = [i \in 1..Len(h) |-> MkSuggestion(h[i], "FORCEUCASE")]
\* --------------------------------------- properties of the handler

\* A coerced candidate with the character after its first space, at index
\* p + 1, replaced by the character the word has at index p, when the two
\* differ by case only; every other character as it is.
SpacedCharKept(typed, text) ==
  LET p == IndexOfChar(text, " ") IN
  IF /\ p # -1 /\ p + 1 < Len(text) /\ p < Len(typed)
     /\ text[p + 2] # typed[p + 1]
     /\ UpperChar(text[p + 2]) = typed[p + 1]
  THEN [text EXCEPT ![p + 2] = typed[p + 1]]
  ELSE text

\* The texts the edits of a call may be yielded with if the handler keeps
\* the character after a space as the claim says: a candidate of a variant,
\* or of the word, coerced to the capitalization type of the word.
EditTexts(f, kind) ==
  {SpacedCharKept(f.word, coerce(c.text, guess(f.word))) :
     c \in {c \in UNION {Range(permutations(EngAff, v)) : v \in Range(corrections(f.word))} :
              c.kind = kind}}

\* C24 (as stated): for a HUH or HUHINIT word, on an engine without
\* KEEPCASE, forbidden words and OCONV, every edit is yielded as its coerced
\* candidate with at most the character after the space replaced by the
\* character of the word it stands for: same length, every other character
\* unchanged.
C24_SpacedCharKept ==
  \A q \in SuggestionCalls :
    (/\ guess(calls[q].word) \in {CapType.HUH, CapType.HUHINIT}
     /\ EngAff.KEEPCASE = NoFlag /\ EngAff.FORBIDDENWORD = NoFlag
     /\ ~EngAff.FORBIDWARN /\ EngAff.OCONV = <<>>) =>
      \A i \in 1..Len(calls[q].out) :
        PassOf(calls[q], i) \in {"edits", "cpd"} =>
          calls[q].out[i].text \in EditTexts(calls[q], calls[q].out[i].kind)
\* --------------------------------------- properties of the decomposer

\* The form reads as text = stem + inner + outer: the add-string of `outer`
\* ends the text, and with it stripped the add-string of `inner` ends what
\* is left, and with that stripped the stem is left.
Layered(form, outer, inner) ==
  /\ EndsWith(form.text, outer.add)
  /\ EndsWith(SuffixApply(outer, form.text), inner.add)
  /\ SuffixApply(inner, SuffixApply(outer, form.text)) = form.stem

\* C25 (as stated): in every double-suffix form of the decomposer `suffix`
\* holds the outermost suffix, the one that ends the surface text and is
\* stripped first, `suffix2` the innermost one, next to the stem, and
\* `text` is the text that was decomposed.
C25_OuterInSuffix ==
  \A i \in 1..Len(verdicts) :
    verdicts[i].form.suffix2 # <<>> =>
      /\ verdicts[i].form.text = word
      /\ verdicts[i].form.suffix # <<>>
      /\ Layered(verdicts[i].form, verdicts[i].form.suffix[1], verdicts[i].form.suffix2[1])

\* What the decomposer does: the two fields the other way round.
InnerInSuffix ==
  \A i \in 1..Len(verdicts) :
    verdicts[i].form.suffix2 # <<>> =>
      /\ verdicts[i].form.text = word
      /\ verdicts[i].form.suffix # <<>>
      /\ Layered(verdicts[i].form, verdicts[i].form.suffix2[1], verdicts[i].form.suffix[1])

\* -------------------------------------------- properties of LKWord.at

\* C26: for a negative n within the word, at(n) is the character |n| places
\* from the end, word[length + n], in both LKWord classes; at(-1) is the
\* last character.
C26_AtFromEnd ==
  \A i \in 1..Len(result) :
    LET r == result[i] IN
    (r.n < 0 /\ 0 - r.n <= Len(word))
      => /\ r.at = <<word[Len(word) + r.n + 1]>>
         /\ r.atMinus = <<word[Len(word) + r.n + 1]>>

\* What holds instead: the class of lk-word.ts:489 indexes from the end,
\* the class of lk-word.ts:96 reads past the end and has no character.
AtFromEndInOne ==
  \A i \in 1..Len(result) :
    LET r == result[i] IN
    (r.n < 0 /\ 0 - r.n <= Len(word))
      => /\ r.at = <<word[Len(word) + r.n + 1]>>
         /\ r.atMinus = <<>>

\* ------------------------------------ properties of the n-gram builder

BestIsFresh(guesses, known) ==
  guesses # <<>> /\ ~\E k \in known : Includes(k, guesses[1].real)

OnlyMaxDiffKeepsNone ==
  \A i \in 1..Len(result) :
    LET guesses == NgramGuesses(EngAff, dic, word)
    IN (EngAff.ONLYMAXDIFF /\ \A j \in 1..Len(guesses) : guesses[j].score < -100)
         => result[i].finish = <<>>

\* ------------------------------------- properties of the compounders

\* What compoundsByFlags and compoundsByRules yield for one variant of the
\* word, before any compound is rejected.
SegmentedByFlags(variant) ==
  IF EngAff.COMPOUNDBEGIN # NoFlag \/ EngAff.COMPOUNDFLAG # NoFlag
  THEN compoundsByFlags(EngAff, dic, MkLKWord(variant, guess(word), PosNone), TRUE, 0)
  ELSE <<>>

SegmentedByRules(variant) ==
  IF EngAff.COMPOUNDRULE # <<>>
  THEN compoundsByRules(EngAff, dic, MkLKWord(variant, guess(word), PosNone), <<>>, EngAff.COMPOUNDRULE)
  ELSE <<>>

\* C28: with COMPOUNDWORDMAX = m >= 1, no CompoundForm yielded by
\* compoundsByFlags or by compoundsByRules has more than m parts.
C28_WordMax ==
  (yielded # <<>> /\ EngAff.COMPOUNDWORDMAX >= 1) =>
    \A v \in Range(variants(word)) :
      /\ \A c \in Range(SegmentedByFlags(v)) : Len(c) <= EngAff.COMPOUNDWORDMAX
      /\ \A c \in Range(SegmentedByRules(v)) : Len(c) <= EngAff.COMPOUNDWORDMAX

\* What the two caps allow: two parts more than m by flags, one more by
\* rules.
WordMaxAsCoded ==
  (yielded # <<>> /\ EngAff.COMPOUNDWORDMAX >= 1) =>
    \A v \in Range(variants(word)) :
      /\ \A c \in Range(SegmentedByFlags(v)) : Len(c) <= EngAff.COMPOUNDWORDMAX + 2
      /\ \A c \in Range(SegmentedByRules(v)) : Len(c) <= EngAff.COMPOUNDWORDMAX + 1

\* Lookup.forms has yielded compounds of the longest kinds.
WordMaxReached ==
  /\ EngAff.COMPOUNDWORDMAX >= 1
  /\ \E f \in Range(yielded) : f.compound /\ Len(f.parts) = EngAff.COMPOUNDWORDMAX + 2

\* The parts are two or more, and none is shorter than COMPOUNDMIN.
LongParts(compound) ==
  /\ Len(compound) >= 2
  /\ \A i \in 1..Len(compound) : Len(compound[i].text) >= EngAff.COMPOUNDMIN

\* C29: with COMPOUNDMIN >= 1, every CompoundForm yielded by
\* compoundsByFlags or compoundsByRules has at least two parts, each of at
\* least COMPOUNDMIN characters, and no word shorter than 2 * COMPOUNDMIN
\* is accepted as a compound.
C29_CompoundMin ==
  (yielded # <<>> /\ EngAff.COMPOUNDMIN >= 1) =>
    /\ \A v \in Range(variants(word)) :
         /\ \A c \in Range(SegmentedByFlags(v)) : LongParts(c)
         /\ \A c \in Range(SegmentedByRules(v)) : LongParts(c)
    /\ \A f \in Range(yielded) :
         f.compound => LongParts(f.parts) /\ Len(PartsText(f.parts)) >= 2 * EngAff.COMPOUNDMIN

\* Lookup.forms has yielded a compound with a part of COMPOUNDMIN
\* characters, where the word list has a shorter word that may be in
\* compounds.
C29_Witness ==
  /\ EngAff.COMPOUNDMIN >= 2
  /\ \E i \in 1..Len(dic) : Len(dic[i].stem) < EngAff.COMPOUNDMIN /\ dic[i].flags # {}
  /\ \E f \in Range(yielded) :
       f.compound /\ \E i \in 1..Len(f.parts) : Len(f.parts[i].text) = EngAff.COMPOUNDMIN

\* -------------------- properties of the suggester, IV: after a good edit

\* The i-th Suggestion of a call is a good edit yielded by the edits or the
\* compound edits of a variant.
GoodEditAt(f, i) ==
  f.out[i].kind \in GOOD_EDITS /\ PassOf(f, i) \in {"edits", "cpd"}

\* C30: after a good edit yielded by the edits or the compound edits of a
\* casing variant, the generator yields only from those two passes of that
\* variant and then stops: no DASHES, NGRAM or PHONET follows, and no other
\* variant is processed.
C30_GoodEditStops ==
  \A q \in SuggestionCalls :
    \A i \in 1..Len(calls[q].out) :
      GoodEditAt(calls[q], i) =>
        /\ \A j \in (i + 1)..Len(calls[q].out) :
             /\ PassOf(calls[q], j) \in {"edits", "cpd"}
             /\ calls[q].trail[j].idx = calls[q].trail[i].idx
             /\ calls[q].out[j].kind \notin {"DASHES", "NGRAM", "PHONET", "CASE"}
        /\ calls[q].stage \in {"edits", "cpd", "done"}
        /\ calls[q].stage # "done" => calls[q].idx = calls[q].trail[i].idx

\* A call that ended with its first variant after a good edit, with a
\* second variant unprocessed and an n-gram suggestion never made.
C30_Witness ==
  \E q \in SuggestionCalls :
    /\ calls[q].stage = "done"
    /\ EngAff.MAXNGRAMSUGS > 0
    /\ Len(variants(calls[q].word)) > 1
    /\ \E i \in 1..Len(calls[q].out) : GoodEditAt(calls[q], i) /\ calls[q].trail[i].idx = 0
    /\ NgramFinish(EngAff, dic, calls[q].word,
                   {calls[q].out[i].text : i \in 1..Len(calls[q].out)}) # <<>>

\* A call that went on with the edits of the variant after a good edit.
GoodEditFollowed ==
  \E q \in SuggestionCalls :
    \E i \in 1..Len(calls[q].out) :
      /\ GoodEditAt(calls[q], i)
      /\ i < Len(calls[q].out)
      /\ PassOf(calls[q], i + 1) = "edits"
====
